---- MODULE Spec2Model ----
(***************************************************************************)
(* Model of the enhanced Memos client (src/enhanced_memos.py): the search  *)
(* parameters, and the filter -> sort -> paginate -> format -> re-sort     *)
(* pipeline of EnhancedMemos.search_memos_enhanced.                        *)
(*                                                                         *)
(* Representation.  A Python str is a sequence of one-character strings;   *)
(* a memo name is an opaque identifier; createTime/updateTime are strings  *)
(* over digits, written as sequences of digits and compared as Python      *)
(* compares strings (lexicographically); an Optional[str] is <<>> for None *)
(* and <<s>> for the string s; a dict is a function whose DOMAIN is its    *)
(* key set.                                                                *)
(***************************************************************************)
EXTENDS Integers, Sequences, FiniteSets, TLC

VARIABLES
    store,            \* the note store's collection, as the list endpoint returns it
    input,            \* the arguments given to EnhancedMemosSearchParams
    params,           \* the constructed EnhancedMemosSearchParams
    pc,               \* position of the caller
    all_memos,        \* search_memos_enhanced: the fetched collection
    filtered_memos,   \* search_memos_enhanced: filtered, then sorted
    paginated_memos,  \* search_memos_enhanced: the page of raw records
    response,         \* the SearchResponse returned
    pages,            \* ids returned by the calls of the current paging loop
    calls,            \* number of searches of the current paging loop
    first_offset,     \* offset of the first search of the current paging loop
    stable,           \* the store has not changed during the paging loop
    call,             \* a direct call of one of the primitives: arguments, locals, result
    tool,             \* the MCP server: the tools' default argument objects, the last tool call
    inv               \* the invocations of search_memos_enhanced in progress, with their locals

\* the state of a search
searchVars == <<store, input, params, pc, all_memos, filtered_memos, paginated_memos,
                response, pages, calls, first_offset, stable>>

\* the state outside a search of the single caller
otherVars == <<call, tool, inv>>

vars == <<searchVars, otherVars>>

(***************************************************************************)
(* Bounds of the model.                                                    *)
(***************************************************************************)
MaxStoreLen == 3
BigStoreLen == 51
LongLineLen == 101
MaxContentLen == 3

(***************************************************************************)
(* Program constants.                                                      *)
(***************************************************************************)
MaxLimit == 50
MinLimit == 1
MinOffset == 0
MinContentLength == 50
MaxContentLength == 2000
DefaultLimit == 10
DefaultContentLength == 500
MinimalSnippetLen == 100
ContextChars == 50
MaxSnippets == 3

(***************************************************************************)
(* Python primitives on str and list.                                      *)
(***************************************************************************)
Min(a, b) == IF a < b THEN a ELSE b
Max(a, b) == IF a > b THEN a ELSE b

\* s[i:j] for 0 <= i, 0 <= j (Python slice, clipped to the sequence)
Slice(s, i, j) == SubSeq(s, i + 1, Min(j, Len(s)))

\* a Python list built by a comprehension: the sequence with these elements
\* (as an explicit tuple, so that it is built once)
AsList(f) == f \o <<>>

\* the upper-case letters and, at the same positions, their lower-case letters
UpperCase ==
    <<"A", "B", "C", "D", "E", "F", "G", "H", "I", "J", "K", "L", "M",
     "N", "O", "P", "Q", "R", "S", "T", "U", "V", "W", "X", "Y", "Z">>

LowerCase ==
    <<"a", "b", "c", "d", "e", "f", "g", "h", "i", "j", "k", "l", "m",
     "n", "o", "p", "q", "r", "s", "t", "u", "v", "w", "x", "y", "z">>

ToLower ==
    [c \in {UpperCase[k] : k \in 1..Len(UpperCase)} |->
        LowerCase[CHOOSE k \in 1..Len(UpperCase) : UpperCase[k] = c]]

\* c.lower() for one character
LowerChar(c) == IF c \in DOMAIN ToLower THEN ToLower[c] ELSE c

\* the lower-case letters of the texts of the model
LowerLetters == {"a", "b", "d", "e", "h", "l", "o", "r", "w", "x"}

\* s.lower()
Lower(s) == AsList([i \in 1..Len(s) |-> LowerChar(s[i])])

\* c.isalnum() for one character
IsAlnum(c) == c \in LowerLetters \cup {"A", "B", "1"}

\* whitespace as str.strip() sees it
IsSpace(c) == c \in {" ", "\n"}

\* needle in hay
Contains(needle, hay) ==
    \E i \in 0..(Len(hay) - Len(needle)) : SubSeq(hay, i + 1, i + Len(needle)) = needle

\* hay.find(needle, start): 0-based index of the first occurrence at or
\* after start, -1 when there is none
Find(hay, needle, start) ==
    LET hits == {i \in start..(Len(hay) - Len(needle)) :
                    SubSeq(hay, i + 1, i + Len(needle)) = needle}
    IN  IF hits = {} THEN -1 ELSE CHOOSE i \in hits : \A j \in hits : i <= j

\* s.startswith(p)
StartsWith(s, p) == Len(s) >= Len(p) /\ SubSeq(s, 1, Len(p)) = p

\* a <= b for two Python strings (lexicographic, a proper prefix is smaller)
StrLeq(a, b) ==
    LET n    == Min(Len(a), Len(b))
        diff == {i \in 1..n : a[i] # b[i]}
    IN  IF diff = {} THEN Len(a) <= Len(b)
        ELSE LET k == CHOOSE i \in diff : \A j \in diff : i <= j
             IN  a[k] < b[k]

\* memo.get(key, default)
Get(memo, key, default) == IF key \in DOMAIN memo THEN memo[key] ELSE default

\* truth value of an Optional[str]: None and "" are both false
Truthy(opt) == opt # <<>> /\ opt[1] # <<>>

\* "x in list"
InList(x, list) == \E i \in 1..Len(list) : list[i] = x

\* [x for x in list if keep(x)], keep given as the list of its truth values:
\* the elements of list whose position is marked TRUE, in order
RECURSIVE SelectMask(_, _)
SelectMask(list, keep) ==
    IF list = <<>> THEN <<>>
    ELSE IF Len(list) = 1 THEN (IF keep[1] THEN list ELSE <<>>)
    ELSE LET half == Len(list) \div 2
         IN  SelectMask(SubSeq(list, 1, half), SubSeq(keep, 1, half))
             \o SelectMask(SubSeq(list, half + 1, Len(list)),
                           SubSeq(keep, half + 1, Len(keep)))

(***************************************************************************)
(* EnhancedMemosSearchParams and its __post_init__.                        *)
(***************************************************************************)
ResponseFormat == {"full", "summary", "minimal", "id_only"}

DefaultFields == <<"id", "content", "tags", "createTime">>

\* variant: the lower bound of limit is not enforced
ClampLimitNoFloor(limit) == IF limit > MaxLimit THEN MaxLimit ELSE limit

ClampLimit(limit) ==
    LET l1 == IF limit > MaxLimit THEN MaxLimit ELSE limit
    IN  IF l1 < MinLimit THEN MinLimit ELSE l1

ClampOffset(offset) == IF offset < MinOffset THEN MinOffset ELSE offset

ClampContentMaxLength(n) ==
    LET n1 == IF n < MinContentLength THEN MinContentLength ELSE n
    IN  IF n1 > MaxContentLength THEN MaxContentLength ELSE n1

EnhancedMemosSearchParams(in) ==
    [query              |-> in.query,
     limit              |-> ClampLimit(in.limit),
     offset             |-> ClampOffset(in.offset),
     fields             |-> in.fields,
     summary_only       |-> in.summary_only,
     content_max_length |-> ClampContentMaxLength(in.content_max_length),
     date_from          |-> in.date_from,
     date_to            |-> in.date_to,
     tags_filter        |-> in.tags_filter,
     response_format    |-> in.response_format,
     group_by_tag       |-> in.group_by_tag]

DefaultInput ==
    [query |-> <<>>, limit |-> DefaultLimit, offset |-> 0, fields |-> DefaultFields,
     summary_only |-> FALSE, content_max_length |-> DefaultContentLength,
     date_from |-> <<>>, date_to |-> <<>>, tags_filter |-> <<>>,
     response_format |-> "summary", group_by_tag |-> FALSE]

(***************************************************************************)
(* Filter stage (search_memos_enhanced, _apply_date_filter).               *)
(***************************************************************************)
QueryMatches(memo, query) == Contains(Lower(query), Lower(Get(memo, "content", <<>>)))

TagMatches(memo, tags_filter) ==
    \E i \in 1..Len(tags_filter) : InList(tags_filter[i], Get(memo, "tags", <<>>))

\* variant: date_to is an exclusive bound
_apply_date_filter_exclusive(memos, date_from, date_to) ==
    LET FromOk(m) == StrLeq(date_from[1], Get(m, "createTime", <<>>))
        ToOk(m)   == /\ StrLeq(Get(m, "createTime", <<>>), date_to[1])
                     /\ Get(m, "createTime", <<>>) # date_to[1]
        f1 == IF Truthy(date_from)
              THEN SelectMask(memos, AsList([i \in 1..Len(memos) |-> FromOk(memos[i])]))
              ELSE memos
    IN  IF Truthy(date_to)
        THEN SelectMask(f1, AsList([i \in 1..Len(f1) |-> ToOk(f1[i])]))
        ELSE f1

_apply_date_filter(memos, date_from, date_to) ==
    LET FromOk(m) == StrLeq(date_from[1], Get(m, "createTime", <<>>))
        ToOk(m)   == StrLeq(Get(m, "createTime", <<>>), date_to[1])
        f1 == IF Truthy(date_from)
              THEN SelectMask(memos, AsList([i \in 1..Len(memos) |-> FromOk(memos[i])]))
              ELSE memos
    IN  IF Truthy(date_to)
        THEN SelectMask(f1, AsList([i \in 1..Len(f1) |-> ToOk(f1[i])]))
        ELSE f1

FilterMemos(memos, p) ==
    LET f1 == IF p.query # <<>>
              THEN SelectMask(memos, AsList([i \in 1..Len(memos) |->
                                                QueryMatches(memos[i], p.query)]))
              ELSE memos
        f2 == IF p.tags_filter # <<>>
              THEN SelectMask(f1, AsList([i \in 1..Len(f1) |->
                                             TagMatches(f1[i], p.tags_filter)]))
              ELSE f1
    IN  IF Truthy(p.date_from) \/ Truthy(p.date_to)
        THEN _apply_date_filter(f2, p.date_from, p.date_to)
        ELSE f2

(***************************************************************************)
(* Sort stage: list.sort(key=createTime, reverse=True).  Python's sort is  *)
(* stable, and with reverse=True equal keys still keep their order.        *)
(***************************************************************************)
CreateKey(m) == Get(m, "createTime", <<>>)

\* variant: records with equal keys count as newer (the sort is not stable)
NewerOrEqual(a, b) == StrLeq(CreateKey(b), CreateKey(a))

\* TRUE when a sorts strictly before b (newest first)
NewerThan(a, b) == ~StrLeq(CreateKey(a), CreateKey(b))

\* stable merge of two sorted lists, the records of left winning the ties:
\* the middle record of left goes behind the records of right that sort
\* strictly before it
RECURSIVE MergeByTime(_, _)
MergeByTime(left, right) ==
    IF left = <<>> THEN right
    ELSE IF right = <<>> THEN left
    ELSE LET mid == (Len(left) + 1) \div 2
             cut == Cardinality({j \in 1..Len(right) : NewerThan(right[j], left[mid])})
         IN  MergeByTime(SubSeq(left, 1, mid - 1), SubSeq(right, 1, cut))
             \o <<left[mid]>>
             \o MergeByTime(SubSeq(left, mid + 1, Len(left)),
                            SubSeq(right, cut + 1, Len(right)))

\* the stable sort (a merge sort, as Python's)
RECURSIVE SortByCreateTime(_)
SortByCreateTime(memos) ==
    IF Len(memos) <= 1 THEN memos
    ELSE LET half == Len(memos) \div 2
         IN  MergeByTime(SortByCreateTime(SubSeq(memos, 1, half)),
                         SortByCreateTime(SubSeq(memos, half + 1, Len(memos))))

(***************************************************************************)
(* Paginate stage.                                                         *)
(***************************************************************************)
\* variant: has_more also when the page ends exactly at the end of the list
_paginate_results_inclusive(all_items, p) ==
    [items       |-> Slice(all_items, p.offset, p.offset + p.limit),
     has_more    |-> p.offset + p.limit <= Len(all_items),
     total_count |-> Len(all_items)]

\* variant: the page starts one record late
_paginate_results_shifted(all_items, p) ==
    [items       |-> Slice(all_items, p.offset + 1, p.offset + p.limit + 1),
     has_more    |-> p.offset + p.limit < Len(all_items),
     total_count |-> Len(all_items)]

\* variant: the limit is ignored when it reaches the ceiling
_paginate_results_uncapped(all_items, p) ==
    [items       |-> IF p.limit = MaxLimit THEN Slice(all_items, p.offset, Len(all_items))
                     ELSE Slice(all_items, p.offset, p.offset + p.limit),
     has_more    |-> p.offset + p.limit < Len(all_items),
     total_count |-> Len(all_items)]

_paginate_results(all_items, p) ==
    LET total_count == Len(all_items)
        start_idx   == p.offset
        end_idx     == start_idx + p.limit
    IN  [items       |-> Slice(all_items, start_idx, end_idx),
         has_more    |-> end_idx < total_count,
         total_count |-> total_count]

(***************************************************************************)
(* More str primitives, used by the snippet, score and summary code.       *)
(***************************************************************************)
\* hay.count(needle): number of non-overlapping occurrences, left to right
RECURSIVE CountFrom(_, _, _)
CountFrom(hay, needle, start) ==
    LET pos == Find(hay, needle, start)
    IN  IF pos = -1 THEN 0 ELSE 1 + CountFrom(hay, needle, pos + Len(needle))

Count(hay, needle) == CountFrom(hay, needle, 0)

\* s[start:].replace(old, new) for non-empty old
RECURSIVE ReplaceFrom(_, _, _, _)
ReplaceFrom(s, old, new, start) ==
    LET pos == Find(s, old, start)
    IN  IF pos = -1 THEN SubSeq(s, start + 1, Len(s))
        ELSE SubSeq(s, start + 1, pos) \o new
             \o ReplaceFrom(s, old, new, pos + Len(old))

\* s.replace(old, new) for non-empty old: every non-overlapping occurrence
Replace(s, old, new) == ReplaceFrom(s, old, new, 0)

\* s.split('\n')
RECURSIVE SplitLines(_)
SplitLines(s) ==
    LET nl == {i \in 1..Len(s) : s[i] = "\n"}
    IN  IF nl = {} THEN <<s>>
        ELSE LET k == CHOOSE i \in nl : \A j \in nl : i <= j
             IN  <<SubSeq(s, 1, k - 1)>> \o SplitLines(SubSeq(s, k + 1, Len(s)))

\* s.strip()
Strip(s) ==
    LET solid == {i \in 1..Len(s) : ~IsSpace(s[i])}
    IN  IF solid = {} THEN <<>>
        ELSE SubSeq(s, CHOOSE i \in solid : \A j \in solid : i <= j,
                       CHOOSE i \in solid : \A j \in solid : i >= j)

\* sep.join(parts)
RECURSIVE Join(_, _)
Join(parts, sep) ==
    IF parts = <<>> THEN <<>>
    ELSE IF Len(parts) = 1 THEN parts[1]
    ELSE parts[1] \o sep \o Join(Tail(parts), sep)

\* s.rsplit(' ', 1)[0]
RSplitSpaceHead(s) ==
    LET sp == {i \in 1..Len(s) : s[i] = " "}
    IN  IF sp = {} THEN s
        ELSE SubSeq(s, 1, (CHOOSE i \in sp : \A j \in sp : i >= j) - 1)

Ellipsis == <<".", ".", ".">>
Bold == <<"*", "*">>
SnippetSeparator == <<" ", "[", ".", ".", ".", "]", " ">>

(***************************************************************************)
(* _extract_snippet_around_match                                           *)
(***************************************************************************)
\* the snippet built for the occurrence at 0-based position pos
SnippetAt(content, query, context_chars, pos) ==
    LET n      == Len(content)
        start0 == Max(0, pos - context_chars)
        end0   == Min(n, pos + Len(query) + context_chars)
        \* extend to word boundaries
        snippet_start == CHOOSE b \in 0..start0 :
                            /\ (b = 0 \/ ~IsAlnum(content[b]))
                            /\ \A c \in (b + 1)..start0 : IsAlnum(content[c])
        snippet_end   == CHOOSE e \in end0..n :
                            /\ (e = n \/ ~IsAlnum(content[e + 1]))
                            /\ \A c \in (end0 + 1)..e : IsAlnum(content[c])
        body    == SubSeq(content, snippet_start + 1, snippet_end)
        s1      == IF snippet_start > 0 THEN Ellipsis \o body ELSE body
        snippet == IF snippet_end < n THEN s1 \o Ellipsis ELSE s1
        matched == SubSeq(content, pos + 1, pos + Len(query))
    IN  Replace(snippet, matched, Bold \o matched \o Bold)

RECURSIVE SnippetsFrom(_, _, _, _)
SnippetsFrom(content, query, context_chars, start) ==
    LET pos == Find(Lower(content), Lower(query), start)
    IN  IF pos = -1 THEN <<>>
        ELSE <<SnippetAt(content, query, context_chars, pos)>>
             \o SnippetsFrom(content, query, context_chars, pos + 1)

_extract_snippet_around_match(content, query, context_chars) ==
    IF query = <<>> \/ content = <<>> THEN <<>>
    ELSE SnippetsFrom(content, query, context_chars, 0)

(***************************************************************************)
(* _calculate_relevance_score.  The score is a float in the code; here it  *)
(* is the exact rational <<numerator, denominator>> in lowest terms.       *)
(***************************************************************************)
RECURSIVE Gcd(_, _)
Gcd(a, b) == IF b = 0 THEN a ELSE Gcd(b, a % b)

Ratio(num, den) == LET g == Gcd(num, den) IN <<num \div g, den \div g>>

\* what "first_match / len(content)" raises when len(content) is 0
ZeroDivisionError == <<"ZeroDivisionError">>

\* variant: the position score is computed without the "first_match != -1" guard
_calculate_relevance_score_unguarded(content, query, tags) ==
    IF query = <<>> THEN Ratio(1, 2)
    ELSE
    LET first_line  == IF content # <<>> THEN SplitLines(content)[1] ELSE <<>>
        title_bonus == IF Contains(Lower(query), Lower(first_line)) THEN 2 ELSE 0
        tag_bonus   == IF \E i \in 1..Len(tags) : Contains(Lower(query), Lower(tags[i]))
                       THEN 1 ELSE 0
        first_match == Find(Lower(content), Lower(query), 0)
        whole       == Count(Lower(content), Lower(query)) + title_bonus + tag_bonus
        num         == whole * Len(content) + (Len(content) - first_match)
    IN  IF Len(content) = 0 THEN ZeroDivisionError
        ELSE IF num >= 10 * Len(content) THEN Ratio(1, 1)
        ELSE Ratio(num, 10 * Len(content))

\* variant: the score is not capped at 1.0
_calculate_relevance_score_uncapped(content, query, tags) ==
    IF query = <<>> THEN Ratio(1, 2)
    ELSE
    LET first_line  == IF content # <<>> THEN SplitLines(content)[1] ELSE <<>>
        title_bonus == IF Contains(Lower(query), Lower(first_line)) THEN 2 ELSE 0
        tag_bonus   == IF \E i \in 1..Len(tags) : Contains(Lower(query), Lower(tags[i]))
                       THEN 1 ELSE 0
        first_match == Find(Lower(content), Lower(query), 0)
        whole       == Count(Lower(content), Lower(query)) + title_bonus + tag_bonus
    IN  IF first_match # -1
        THEN Ratio(whole * Len(content) + (Len(content) - first_match), 10 * Len(content))
        ELSE Ratio(whole, 10)

_calculate_relevance_score(content, query, tags) ==
    IF query = <<>> THEN Ratio(1, 2)
    ELSE
    LET query_lower   == Lower(query)
        content_lower == Lower(content)
        match_count   == Count(content_lower, query_lower)
        first_line    == IF content # <<>> THEN SplitLines(content)[1] ELSE <<>>
        title_bonus   == IF Contains(query_lower, Lower(first_line)) THEN 2 ELSE 0
        tag_bonus     == IF \E i \in 1..Len(tags) : Contains(query_lower, Lower(tags[i]))
                         THEN 1 ELSE 0
        first_match   == Find(content_lower, query_lower, 0)
        whole         == match_count + title_bonus + tag_bonus
        \* raw_score = whole + (1 - first_match / len(content)), over 10
        num == IF first_match # -1
               THEN whole * Len(content) + (Len(content) - first_match)
               ELSE whole
        den == IF first_match # -1 THEN 10 * Len(content) ELSE 10
    IN  IF den = 0 THEN ZeroDivisionError
        ELSE IF num >= den THEN Ratio(1, 1) ELSE Ratio(num, den)

(***************************************************************************)
(* _generate_smart_summary                                                 *)
(***************************************************************************)
IsStructural(line) ==
    \/ StartsWith(line, <<"#">>) \/ StartsWith(line, <<"-">>)
    \/ StartsWith(line, <<"*">>) \/ StartsWith(line, <<"1", ".">>)

IsRegular(line) ==
    line # <<>> /\ ~StartsWith(line, <<"#">>) /\ ~StartsWith(line, <<"-">>)

\* one pass of "for line in lines[1:]" appending to summary_parts
RECURSIVE SummaryPass(_, _, _, _)
SummaryPass(rest, summary_parts, remaining_length, second) ==
    IF rest = <<>> THEN summary_parts
    ELSE LET line   == Strip(Head(rest))
             wanted == IF second THEN IsRegular(line)
                       ELSE line # <<>> /\ IsStructural(line)
             fits   == Len(Join(summary_parts, <<" ">>)) + Len(line) < remaining_length
         IN  SummaryPass(Tail(rest),
                         IF wanted /\ fits THEN Append(summary_parts, line)
                         ELSE summary_parts,
                         remaining_length, second)

\* variant: the summary is not cut to max_length
StructuralSummaryUncut(content, max_length) ==
    LET lines  == SplitLines(content)
        remaining_length == max_length - Len(lines[1])
        parts1 == SummaryPass(Tail(lines), <<lines[1]>>, remaining_length, FALSE)
        parts2 == IF 10 * Len(Join(parts1, <<" ">>)) < 7 * max_length
                  THEN SummaryPass(Tail(lines), parts1, remaining_length, TRUE)
                  ELSE parts1
    IN  Join(parts2, <<"\n">>)

\* variant: the title is stripped like the other lines
StructuralSummaryStripped(content, max_length) ==
    LET lines  == SplitLines(content)
        title  == Strip(lines[1])
        remaining_length == max_length - Len(title)
        parts1 == SummaryPass(Tail(lines), <<title>>, remaining_length, FALSE)
        parts2 == IF 10 * Len(Join(parts1, <<" ">>)) < 7 * max_length
                  THEN SummaryPass(Tail(lines), parts1, remaining_length, TRUE)
                  ELSE parts1
        summary == Join(parts2, <<"\n">>)
    IN  IF Len(summary) > max_length
        THEN RSplitSpaceHead(Slice(summary, 0, max_length)) \o Ellipsis
        ELSE summary

StructuralSummary(content, max_length) ==
    LET lines  == SplitLines(content)
        parts0 == <<lines[1]>>
        remaining_length == max_length - Len(lines[1])
        parts1 == SummaryPass(Tail(lines), parts0, remaining_length, FALSE)
        \* len(' '.join(summary_parts)) < max_length * 0.7
        parts2 == IF 10 * Len(Join(parts1, <<" ">>)) < 7 * max_length
                  THEN SummaryPass(Tail(lines), parts1, remaining_length, TRUE)
                  ELSE parts1
        summary == Join(parts2, <<"\n">>)
    IN  IF Len(summary) > max_length
        THEN RSplitSpaceHead(Slice(summary, 0, max_length)) \o Ellipsis
        ELSE summary

\* variant: every snippet is joined, not only the first three
_generate_smart_summary_unlimited(memo, query, max_length) ==
    LET content  == Get(memo, "content", <<>>)
        snippets == _extract_snippet_around_match(content, query, ContextChars)
        joined   == Join(snippets, SnippetSeparator)
    IN  IF content = <<>> THEN <<>>
        ELSE IF query # <<>> /\ snippets # <<>>
        THEN IF Len(joined) > max_length
             THEN Slice(joined, 0, max_length) \o Ellipsis
             ELSE joined
        ELSE StructuralSummary(content, max_length)

_generate_smart_summary(memo, query, max_length) ==
    LET content  == Get(memo, "content", <<>>)
        snippets == _extract_snippet_around_match(content, query, ContextChars)
        joined   == Join(Slice(snippets, 0, MaxSnippets), SnippetSeparator)
    IN  IF content = <<>> THEN <<>>
        ELSE IF query # <<>> /\ snippets # <<>>
        THEN IF Len(joined) > max_length
             THEN Slice(joined, 0, max_length) \o Ellipsis
             ELSE joined
        ELSE StructuralSummary(content, max_length)

(***************************************************************************)
(* Format stage: _apply_response_format                                    *)
(***************************************************************************)
\* "for field in params.fields: if field in memo: formatted[field] = memo[field]"
RECURSIVE CopyFields(_, _, _)
CopyFields(formatted, memo, fields) ==
    IF fields = <<>> THEN formatted
    ELSE CopyFields(IF Head(fields) \in DOMAIN memo
                    THEN (Head(fields) :> memo[Head(fields)]) @@ formatted
                    ELSE formatted,
                    memo, Tail(fields))

\* 'del formatted["nodes"]' unless the format is FULL
DropNodes(formatted, response_format) ==
    IF "nodes" \in DOMAIN formatted /\ response_format # "full"
    THEN [k \in DOMAIN formatted \ {"nodes"} |-> formatted[k]]
    ELSE formatted

\* the fields every format but id_only starts from
BaseFields(memo) ==
    [id         |-> Get(memo, "name", ""),
     createTime |-> Get(memo, "createTime", <<>>),
     updateTime |-> Get(memo, "updateTime", <<>>)]

\* variant: id_only keeps the timestamps
FormatIdOnlyWithTimes(memo) == BaseFields(memo)

\* ResponseFormat.ID_ONLY
FormatIdOnly(memo) == [id |-> Get(memo, "name", "")]

\* variant: the first line is not cut
FormatMinimalUncut(memo) ==
    LET content    == Get(memo, "content", <<>>)
        first_line == IF content # <<>> THEN SplitLines(content)[1] ELSE <<>>
    IN  ("snippet" :> first_line) @@ ("tags" :> Get(memo, "tags", <<>>)) @@ BaseFields(memo)

\* ResponseFormat.MINIMAL
FormatMinimal(memo) ==
    LET content    == Get(memo, "content", <<>>)
        first_line == IF content # <<>>
                      THEN Slice(SplitLines(content)[1], 0, MinimalSnippetLen)
                      ELSE <<>>
    IN  ("snippet" :> first_line) @@ ("tags" :> Get(memo, "tags", <<>>)) @@ BaseFields(memo)

\* the outcome of a call that raised the exception named e
Raised(e) == [error |-> e]

\* variant: summary_only is ignored, the content is summarized for a query only
FormatSummaryQueryOnly(memo, p, query) ==
    LET content   == Get(memo, "content", <<>>)
        tags      == Get(memo, "tags", <<>>)
        snippets  == _extract_snippet_around_match(content, query, ContextChars)
        truncated == IF Len(content) > p.content_max_length
                     THEN Slice(content, 0, p.content_max_length) \o Ellipsis
                     ELSE Slice(content, 0, p.content_max_length)
    IN  ("snippet" :> Get(memo, "snippet", <<>>)) @@ ("tags" :> tags)
        @@ (IF query # <<>>
            THEN ("relevance_score" :> _calculate_relevance_score(content, query, tags))
                 @@ (IF snippets # <<>>
                     THEN ("match_snippets" :> Slice(snippets, 0, MaxSnippets))
                     ELSE <<>>)
                 @@ ("content" :> _generate_smart_summary(memo, query, p.content_max_length))
            ELSE ("content" :> truncated))
        @@ BaseFields(memo)

\* variant: the relevance score is attached without a query as well
FormatSummaryAlwaysScored(memo, p, query) ==
    LET content == Get(memo, "content", <<>>)
        tags    == Get(memo, "tags", <<>>)
    IN  ("snippet" :> Get(memo, "snippet", <<>>)) @@ ("tags" :> tags)
        @@ ("relevance_score" :> _calculate_relevance_score(content, query, tags))
        @@ ("content" :> _generate_smart_summary(memo, query, p.content_max_length))
        @@ BaseFields(memo)

\* ResponseFormat.SUMMARY
FormatSummary(memo, p, query) ==
    LET content   == Get(memo, "content", <<>>)
        tags      == Get(memo, "tags", <<>>)
        snippets  == _extract_snippet_around_match(content, query, ContextChars)
        smart     == ("content" :> _generate_smart_summary(memo, query, p.content_max_length))
        withSnips == IF query # <<>> /\ snippets # <<>>
                     THEN ("match_snippets" :> Slice(snippets, 0, MaxSnippets))
                     ELSE <<>>
        withScore == IF query # <<>>
                     THEN ("relevance_score" :> _calculate_relevance_score(content, query, tags))
                     ELSE <<>>
        truncated == IF Len(content) > p.content_max_length
                     THEN Slice(content, 0, p.content_max_length) \o Ellipsis
                     ELSE Slice(content, 0, p.content_max_length)
    IN  IF query # <<>> /\ _calculate_relevance_score(content, query, tags) = ZeroDivisionError
        THEN Raised("ZeroDivisionError")
        ELSE ("snippet" :> Get(memo, "snippet", <<>>)) @@ ("tags" :> tags)
             @@ (IF p.summary_only \/ query # <<>>
                 THEN withScore @@ withSnips @@ smart
                 ELSE ("content" :> truncated))
             @@ BaseFields(memo)

\* variant: a requested field the record lacks is given as the empty string
FormatFullDefaulted(memo, p) ==
    CopyFields(BaseFields(memo),
               [k \in DOMAIN memo \cup {p.fields[i] : i \in 1..Len(p.fields)} |->
                   Get(memo, k, <<>>)],
               p.fields)

\* ResponseFormat.FULL
FormatFull(memo, p) == CopyFields(BaseFields(memo), memo, p.fields)

\* variant: the relevance score is attached in every format but id_only
_apply_response_format_scored(memo, p, query) ==
    IF p.response_format = "id_only" THEN FormatIdOnly(memo)
    ELSE DropNodes((IF query # <<>>
                    THEN ("relevance_score" :>
                            _calculate_relevance_score(Get(memo, "content", <<>>), query,
                                                       Get(memo, "tags", <<>>)))
                    ELSE <<>>)
                   @@ (IF p.response_format = "minimal" THEN FormatMinimal(memo)
                       ELSE IF p.response_format = "summary" THEN FormatSummary(memo, p, query)
                       ELSE FormatFull(memo, p)),
                   p.response_format)

_apply_response_format(memo, p, query) ==
    IF p.response_format = "id_only" THEN FormatIdOnly(memo)
    ELSE DropNodes(IF p.response_format = "minimal" THEN FormatMinimal(memo)
                   ELSE IF p.response_format = "summary" THEN FormatSummary(memo, p, query)
                   ELSE FormatFull(memo, p),
                   p.response_format)

(***************************************************************************)
(* Relevance re-sort: list.sort(key=relevance_score or 0, reverse=True)    *)
(***************************************************************************)
ScoreOf(note) == IF "relevance_score" \in DOMAIN note THEN note["relevance_score"] ELSE <<0, 1>>

\* variant: equal scores count as smaller (the sort is not stable)
ScoreLessOrEqual(a, b) == a[1] * b[2] <= b[1] * a[2]

\* a < b for two scores
ScoreLess(a, b) == a[1] * b[2] < b[1] * a[2]

\* stable merge of two lists sorted by descending score, left winning ties
RECURSIVE MergeByScore(_, _)
MergeByScore(left, right) ==
    IF left = <<>> THEN right
    ELSE IF right = <<>> THEN left
    ELSE LET mid == (Len(left) + 1) \div 2
             cut == Cardinality({j \in 1..Len(right) :
                                    ScoreLess(ScoreOf(left[mid]), ScoreOf(right[j]))})
         IN  MergeByScore(SubSeq(left, 1, mid - 1), SubSeq(right, 1, cut))
             \o <<left[mid]>>
             \o MergeByScore(SubSeq(left, mid + 1, Len(left)),
                             SubSeq(right, cut + 1, Len(right)))

RECURSIVE SortByRelevance(_)
SortByRelevance(notes) ==
    IF Len(notes) <= 1 THEN notes
    ELSE LET half == Len(notes) \div 2
         IN  MergeByScore(SortByRelevance(SubSeq(notes, 1, half)),
                          SortByRelevance(SubSeq(notes, half + 1, Len(notes))))

(***************************************************************************)
(* search_memos_enhanced, after a successful fetch of all_memos: the       *)
(* values of its locals and the SearchResponse it returns.                 *)
(***************************************************************************)
\* variant: the next page starts one record too far
NextOffsetSkipping(p, has_more) == IF has_more THEN p.offset + p.limit + 1 ELSE -1

\* "next_offset = params.offset + params.limit if has_more else -1"
NextOffset(p, has_more) == IF has_more THEN p.offset + p.limit ELSE -1

\* the SearchResponse built from the locals of search_memos_enhanced
SearchResponse(paged, notes, p) ==
    [memos          |-> notes,
     total_count    |-> paged.total_count,
     has_more       |-> paged.has_more,
     next_offset    |-> NextOffset(p, paged.has_more),
     query_metadata |-> [query          |-> p.query,
                         limit          |-> p.limit,
                         offset         |-> p.offset,
                         format         |-> p.response_format,
                         filtered_count |-> paged.total_count,
                         returned_count |-> Len(notes)]]

\* "if params.query and any('relevance_score' in note ...): notes.sort(...)"
ResortNotes(formatted, p) ==
    IF p.query # <<>>
       /\ \E i \in 1..Len(formatted) : "relevance_score" \in DOMAIN formatted[i]
    THEN SortByRelevance(formatted)
    ELSE formatted

\* "formatted_memos = [self._apply_response_format(memo, ...) for memo in ...]"
FormatNotes(items, p) ==
    AsList([i \in 1..Len(items) |-> _apply_response_format(items[i], p, p.query)])

\* variant: the notes are ranked before the page is cut out of them
PaginatedLocalsRanked(filtered, paged, p) ==
    [filtered_memos  |-> filtered,
     paginated_memos |-> paged.items,
     response        |-> SearchResponse(paged,
                            Slice(ResortNotes(FormatNotes(filtered, p), p),
                                  p.offset, p.offset + p.limit), p)]

\* the locals after the pagination of the filtered, sorted list
PaginatedLocals(filtered, paged, p) ==
    [filtered_memos  |-> filtered,
     paginated_memos |-> paged.items,
     response        |-> SearchResponse(paged, ResortNotes(FormatNotes(paged.items, p), p), p)]

\* the locals after the filter and sort stages
FilteredLocals(filtered, p) == PaginatedLocals(filtered, _paginate_results(filtered, p), p)

SearchLocals(fetched, p) == FilteredLocals(SortByCreateTime(FilterMemos(fetched, p)), p)

(***************************************************************************)
(* The note store's collections the model starts from.                     *)
(***************************************************************************)
LongContent ==
    <<"A", " ">> \o AsList([i \in 1..LongLineLen |-> IF i % 8 = 0 THEN " " ELSE "1"])
    \o <<"\n", "-", " ", "b">>

PoolMemos ==
    << [name |-> "m1", content |-> <<"a", "b", "\n", "B", " ", "a">>,
        tags |-> << <<"a">> >>, createTime |-> <<1>>, updateTime |-> <<1>>],
       [name |-> "m2", content |-> <<"A", "b">>,
        tags |-> << <<"A">> >>, createTime |-> <<1>>, updateTime |-> <<2>>,
        snippet |-> <<"A", "b">>, nodes |-> <<"n">>],
       [name |-> "m3", content |-> LongContent,
        tags |-> << <<"a">>, <<"b">> >>, createTime |-> <<1, 2>>, updateTime |-> <<2>>],
       [name |-> "m4"] >>

\* every list of distinct pool memos of at most MaxStoreLen records
SmallStores ==
    LET n == Len(PoolMemos)
    IN  {[i \in 1..Len(ix) |-> PoolMemos[ix[i]]] :
            ix \in {jx \in UNION {[1..k -> 1..n] : k \in 0..Min(MaxStoreLen, n)} :
                        \A a, b \in DOMAIN jx : a # b => jx[a] # jx[b]}}

\* twelve records created on twelve consecutive days, oldest first
DatedStore ==
    AsList([i \in 1..12 |-> [name |-> ToString(i), content |-> <<"b">>, tags |-> <<>>,
                             createTime |-> <<i \div 10, i % 10>>,
                             updateTime |-> <<i \div 10, i % 10>>]])

\* a collection larger than the largest page, with repeated creation times
BigStore ==
    AsList([i \in 1..BigStoreLen |-> [name |-> ToString(i), content |-> <<"a">>,
                                      tags |-> << <<"b">> >>,
                                      createTime |-> <<i % 3>>, updateTime |-> <<i % 3>>]])

Stores == SmallStores \cup {DatedStore, BigStore}

(***************************************************************************)
(* The arguments the model constructs EnhancedMemosSearchParams with.      *)
(***************************************************************************)
None == <<>>
Some(str) == <<str>>

Queries == {<<>>, <<"a">>, <<"B">>}
TagFilters == {<<>>, << <<"a">> >>, << <<"A">>, <<"b">> >>}
DatesFrom == {None, Some(<<>>), Some(<<1>>), Some(<<1, 2>>)}
DatesTo == {None, Some(<<>>), Some(<<1>>), Some(<<1, 1>>)}
LimitInputs == {-1, 0, 1, 2, 5, 12, 50, 100} \cup {MaxStoreLen, BigStoreLen}
OffsetInputs == {-1, 0, 1, 2, 10, 49, 1000}
LengthInputs == {49, 60, 2001}
FieldLists == {DefaultFields, <<"content", "nodes", "snippet", "pinned">>}

\* paging requests: every limit and offset, no filter
PagingInputs ==
    {[DefaultInput EXCEPT !.limit = l, !.offset = o, !.response_format = "id_only"] :
        l \in LimitInputs, o \in OffsetInputs}

\* filtering requests: every combination of the filters
FilterInputs ==
    {[DefaultInput EXCEPT !.query = q, !.tags_filter = t, !.date_from = df,
                          !.date_to = dt, !.limit = l, !.response_format = "minimal"] :
        q \in Queries, t \in TagFilters, df \in DatesFrom, dt \in DatesTo, l \in {2, DefaultLimit}}

\* formatting requests: every response format and summarisation setting
FormatInputs ==
    {[DefaultInput EXCEPT !.query = q, !.response_format = f, !.summary_only = so,
                          !.content_max_length = n, !.fields = fl] :
        q \in Queries, f \in ResponseFormat, so \in BOOLEAN,
        n \in LengthInputs, fl \in FieldLists}

\* ranked requests: a query, the summary format and a page shorter than the result
RelevanceInputs ==
    {[DefaultInput EXCEPT !.query = q, !.limit = l, !.offset = o] :
        q \in Queries \ {<<>>}, l \in {1, 2}, o \in {0, 1}}

Inputs == PagingInputs \cup FilterInputs \cup FormatInputs \cup RelevanceInputs

\* the two large collections are searched with the paging requests only
InputsFor(collection) ==
    IF Len(collection) > Len(PoolMemos) THEN PagingInputs ELSE Inputs

(***************************************************************************)
(* State machine.  pc is the position of the caller: "idle" (no request),  *)
(* "ready" (parameters constructed), "done" (response returned).           *)
(***************************************************************************)
\* no primitive is being called
NoCall == [op |-> "none", pc |-> "none"]

\* the MCP server between two tool calls: no call made, and the default
\* argument objects ("tags: List[str] = []") as they are created
NoTool ==
    [op |-> "none", args |-> <<>>, params |-> <<>>, outcome |-> <<>>, sent |-> <<>>,
     caller_tags |-> <<>>,
     create_default |-> <<>>, update_default |-> <<>>, client_update_default |-> <<>>]

\* no invocation is in progress
NoInvocations == <<>>

NoResponse ==
    [memos |-> <<>>, total_count |-> 0, has_more |-> FALSE, next_offset |-> -1,
     query_metadata |-> [query |-> <<>>, limit |-> 0, offset |-> 0, format |-> "summary",
                         filtered_count |-> 0, returned_count |-> 0]]

Init ==
    /\ store \in Stores
    /\ input = DefaultInput
    /\ params = EnhancedMemosSearchParams(DefaultInput)
    /\ pc = "idle"
    /\ all_memos = <<>>
    /\ filtered_memos = <<>>
    /\ paginated_memos = <<>>
    /\ response = NoResponse
    /\ pages = <<>>
    /\ calls = 0
    /\ first_offset = 0
    /\ stable = TRUE
    /\ call = NoCall
    /\ tool = NoTool
    /\ inv = NoInvocations

\* a caller constructs the parameters of a new request
Construct(in) ==
    /\ pc = "idle"
    /\ input' = in
    /\ params' = EnhancedMemosSearchParams(in)
    /\ pc' = "ready"
    /\ all_memos' = <<>>
    /\ filtered_memos' = <<>>
    /\ paginated_memos' = <<>>
    /\ response' = NoResponse
    /\ pages' = <<>>
    /\ calls' = 0
    /\ first_offset' = params'.offset
    /\ stable' = TRUE
    /\ UNCHANGED <<store, otherVars>>

\* search_memos_enhanced(params) with a successful fetch
Search ==
    /\ pc = "ready"
    /\ \E r \in {SearchLocals(store, params)} :
          /\ all_memos' = store
          /\ filtered_memos' = r.filtered_memos
          /\ paginated_memos' = r.paginated_memos
          /\ response' = r.response
          /\ pages' = pages \o [i \in 1..Len(r.response.memos) |-> r.response.memos[i]["id"]]
    /\ calls' = calls + 1
    /\ pc' = "done"
    /\ UNCHANGED <<store, input, params, first_offset, stable, otherVars>>

\* the caller asks for the next page: same parameters, offset = next_offset
NextPage ==
    /\ pc = "done"
    /\ response.has_more
    /\ input' = [params EXCEPT !.offset = response.next_offset]
    /\ params' = EnhancedMemosSearchParams(input')
    /\ pc' = "ready"
    /\ UNCHANGED <<store, all_memos, filtered_memos, paginated_memos, response,
                   pages, calls, first_offset, stable, otherVars>>

\* another client of the note store inserts a memo between two pages
ExternalInsert ==
    /\ pc = "done"
    /\ response.has_more
    /\ Len(store) < MaxStoreLen
    /\ \E i \in 1..Len(PoolMemos) :
          /\ ~InList(PoolMemos[i], store)
          /\ store' = <<PoolMemos[i]>> \o store
    /\ stable' = FALSE
    /\ UNCHANGED <<input, params, pc, all_memos, filtered_memos, paginated_memos,
                   response, pages, calls, first_offset, otherVars>>

\* the caller is finished with the response
Finish ==
    /\ pc = "done"
    /\ input' = DefaultInput
    /\ params' = EnhancedMemosSearchParams(DefaultInput)
    /\ pc' = "idle"
    /\ all_memos' = <<>>
    /\ filtered_memos' = <<>>
    /\ paginated_memos' = <<>>
    /\ response' = NoResponse
    /\ pages' = <<>>
    /\ calls' = 0
    /\ first_offset' = 0
    /\ stable' = TRUE
    /\ UNCHANGED <<store, otherVars>>

Next ==
    \/ \E in \in InputsFor(store) : Construct(in)
    \/ Search
    \/ NextPage
    \/ ExternalInsert
    \/ Finish

Spec == Init /\ [][Next]_vars

(***************************************************************************)
(* Direct calls of the primitives: _calculate_relevance_score,             *)
(* _extract_snippet_around_match and _generate_smart_summary, each called  *)
(* with arguments drawn from the texts below.  call.pc is "called" (the    *)
(* arguments are bound), "loop" (inside the while loop of the snippet      *)
(* extraction) or "returned".                                              *)
(***************************************************************************)
Alphabet == {"a", "A", " ", "\n"}

\* every text over the alphabet of at most n characters
Strings(n) == UNION {[1..k -> Alphabet] : k \in 0..n}

HelloContent ==
    <<"h", "e", "l", "l", "o", " ", "w", "o", "r", "l", "d", " ", "h", "e", "l", "l", "o">>

HelloQuery == <<"h", "e", "l", "l", "o">>

\* a title, a '*' item, a '1.' item, a '-' item, a header and a plain line
ListContent ==
    <<"a", "\n", "*", " ", "a", "\n", "1", ".", " ", "a", "\n",
      "-", " ", "a", "\n", "#", " ", "a", "\n", "b">>

\* three and seven occurrences of "a"
TripleContent == <<"a", " ", "a", " ", "a">>
SevenfoldContent == <<"a", "a", "a", "a", "a", "a", "a">>

\* a long first line, then a line with a full stop
DottedContent ==
    <<"A", " ">> \o AsList([i \in 1..LongLineLen |-> IF i % 8 = 0 THEN " " ELSE "1"])
    \o <<"\n", ".", " ", "b">>

Contents ==
    Strings(MaxContentLen) \cup {HelloContent, TripleContent, LongContent, DottedContent}

CallQueries == {<<>>, <<"a">>, <<"A">>, <<"a", "a">>, <<"b">>, HelloQuery, <<".">>}

CallTags == {<<>>, << <<"A">> >>, << <<"x">>, <<"b">> >>}

CallLengths == {MinContentLength, 60, DefaultContentLength}

\* records with every optional field missing, with empty content, with one
\* line, with two lines and with a long first line
CallMemos ==
    {[name |-> "m4"],
     [name |-> "m3", content |-> LongContent, tags |-> << <<"a">>, <<"b">> >>,
      createTime |-> <<1, 2>>, updateTime |-> <<2>>],
     [name |-> "m5", content |-> <<>>, tags |-> << <<"a">> >>],
     [name |-> "m2", content |-> <<"A", "b">>, tags |-> << <<"A">> >>,
      createTime |-> <<1>>, updateTime |-> <<2>>, snippet |-> <<"A", "b">>, nodes |-> <<"n">>],
     [name |-> "m1", content |-> <<"a", "b", "\n", "B", " ", "a">>,
      tags |-> << <<"a">> >>, createTime |-> <<1>>, updateTime |-> <<1>>]}

NewFormatCall(memo, p, query) ==
    [op |-> "_apply_response_format", memo |-> memo, params |-> p, query |-> query,
     ret |-> <<>>, pc |-> "called"]

NewCall(op, content, query, tags, max_length) ==
    [op |-> op, content |-> content, query |-> query, tags |-> tags,
     max_length |-> max_length, start |-> 0, snippets |-> <<>>, ret |-> <<>>,
     pc |-> "called"]

Calls ==
    {NewCall("_calculate_relevance_score", c, q, t, DefaultContentLength) :
        c \in Contents \cup {SevenfoldContent}, q \in CallQueries, t \in CallTags}
    \cup {NewCall("_extract_snippet_around_match", c, q, <<>>, DefaultContentLength) :
        c \in Contents, q \in CallQueries}
    \cup {NewCall("_generate_smart_summary", c, q, <<>>, n) :
        c \in Contents \cup {ListContent}, q \in CallQueries, n \in CallLengths}
    \cup {NewFormatCall(m, EnhancedMemosSearchParams(
                                [DefaultInput EXCEPT !.response_format = f,
                                                     !.summary_only = so,
                                                     !.content_max_length = n]), q) :
        m \in CallMemos, f \in ResponseFormat, so \in BOOLEAN, q \in Queries,
        n \in {MinContentLength, DefaultContentLength}}

CallInit ==
    /\ store = <<>>
    /\ input = DefaultInput
    /\ params = EnhancedMemosSearchParams(DefaultInput)
    /\ pc = "idle"
    /\ all_memos = <<>>
    /\ filtered_memos = <<>>
    /\ paginated_memos = <<>>
    /\ response = NoResponse
    /\ pages = <<>>
    /\ calls = 0
    /\ first_offset = 0
    /\ stable = TRUE
    /\ call \in Calls
    /\ tool = NoTool
    /\ inv = NoInvocations

\* _calculate_relevance_score(content, query, tags) runs and returns
ScoreReturn ==
    /\ call.pc = "called"
    /\ call.op = "_calculate_relevance_score"
    /\ call' = [call EXCEPT
                  !.ret = _calculate_relevance_score(call.content, call.query, call.tags),
                  !.pc  = "returned"]
    /\ UNCHANGED <<searchVars, tool, inv>>

\* _extract_snippet_around_match up to its while loop
ExtractEnter ==
    /\ call.pc = "called"
    /\ call.op = "_extract_snippet_around_match"
    /\ IF call.query = <<>> \/ call.content = <<>>
       THEN call' = [call EXCEPT !.ret = <<>>, !.pc = "returned"]
       ELSE call' = [call EXCEPT !.snippets = <<>>, !.start = 0, !.pc = "loop"]
    /\ UNCHANGED <<searchVars, tool, inv>>

\* variant: the scan resumes behind the match, not one character after its start
ExtractLoopSkipping ==
    /\ call.pc = "loop"
    /\ \E pos \in {Find(Lower(call.content), Lower(call.query), call.start)} :
          IF pos = -1
          THEN call' = [call EXCEPT !.ret = call.snippets, !.pc = "returned"]
          ELSE call' = [call EXCEPT
                          !.snippets = Append(call.snippets,
                              SnippetAt(call.content, call.query, ContextChars, pos)),
                          !.start = pos + Len(call.query)]
    /\ UNCHANGED <<searchVars, tool, inv>>

\* one iteration of "while True" of _extract_snippet_around_match
ExtractLoop ==
    /\ call.pc = "loop"
    /\ \E pos \in {Find(Lower(call.content), Lower(call.query), call.start)} :
          IF pos = -1
          THEN call' = [call EXCEPT !.ret = call.snippets, !.pc = "returned"]
          ELSE call' = [call EXCEPT
                          !.snippets = Append(call.snippets,
                              SnippetAt(call.content, call.query, ContextChars, pos)),
                          !.start = pos + 1]
    /\ UNCHANGED <<searchVars, tool, inv>>

\* _generate_smart_summary(memo, query, max_length) runs and returns
SummaryReturn ==
    /\ call.pc = "called"
    /\ call.op = "_generate_smart_summary"
    /\ call' = [call EXCEPT
                  !.ret = _generate_smart_summary([content |-> call.content],
                                                  call.query, call.max_length),
                  !.pc  = "returned"]
    /\ UNCHANGED <<searchVars, tool, inv>>

\* _apply_response_format(memo, params, query) runs and returns
FormatReturn ==
    /\ call.pc = "called"
    /\ call.op = "_apply_response_format"
    /\ call' = [call EXCEPT
                  !.ret = _apply_response_format(call.memo, call.params, call.query),
                  !.pc  = "returned"]
    /\ UNCHANGED <<searchVars, tool, inv>>

CallNext == ScoreReturn \/ ExtractEnter \/ ExtractLoop \/ SummaryReturn \/ FormatReturn

\* the loop of a snippet extraction, once entered, keeps running
CallSpec == CallInit /\ [][CallNext]_vars /\ WF_vars(ExtractEnter \/ ExtractLoop)

(***************************************************************************)
(* The MCP tools (src/main_enhanced.py) and the client methods they call.  *)
(* A request to the note store has one of these results: status 200 with   *)
(* a body, another success status, or a requests.RequestException.         *)
(***************************************************************************)
RequestFailures == {"ConnectionError", "HTTPError"}

\* the results of "requests.get(...)" on the list endpoint of the store
Fetches(collection) ==
    {[status |-> 200, body |-> [memos |-> collection]],
     [status |-> 200, body |-> [nextPageToken |-> <<>>]],
     [status |-> 204, body |-> <<>>]}
    \cup {[raised |-> e] : e \in RequestFailures}

\* the request went through and its status is one the caller takes as success
Accepted(result, ok_statuses) ==
    IF "raised" \in DOMAIN result THEN FALSE ELSE result.status \in ok_statuses

\* "raise MemosException(f"{what}: {detail}")"
MemosException(what, detail) ==
    [exception |-> "MemosException", message |-> <<what, detail>>]

\* "raise McpError(ErrorData(code=INTERNAL_ERROR, message=str(e)))"
McpError(e) == [error |-> "McpError", code |-> "INTERNAL_ERROR", message |-> e.message]

\* variant: a failed fetch is answered with an empty response
search_memos_enhanced_lenient(fetch, p) ==
    IF Accepted(fetch, {200})
    THEN SearchLocals(Get(fetch.body, "memos", <<>>), p).response
    ELSE SearchLocals(<<>>, p).response

\* EnhancedMemos.search_memos_enhanced, the fetch included
search_memos_enhanced(fetch, p) ==
    IF "raised" \in DOMAIN fetch
    THEN MemosException("Error searching memos", fetch.raised)
    ELSE IF fetch.status = 200
    THEN SearchLocals(Get(fetch.body, "memos", <<>>), p).response
    ELSE MemosException("Error searching memos", ToString(fetch.status))

\* the strings of response formats, "id_only", "minimal", "summary", "full"
FormatMap ==
    << <<"i", "d", "_", "o", "n", "l", "y">>, <<"m", "i", "n", "i", "m", "a", "l">>,
       <<"s", "u", "m", "m", "a", "r", "y">>, <<"f", "u", "l", "l">> >>

FormatNames == <<"id_only", "minimal", "summary", "full">>

\* variant: the format string is looked up as it is written
FormatOfExact(response_format) ==
    IF \E k \in 1..Len(FormatMap) : FormatMap[k] = response_format
    THEN FormatNames[CHOOSE k \in 1..Len(FormatMap) : FormatMap[k] = response_format]
    ELSE "summary"

\* "format_map.get(response_format.lower(), ResponseFormat.SUMMARY)"
FormatOf(response_format) ==
    IF \E k \in 1..Len(FormatMap) : FormatMap[k] = Lower(response_format)
    THEN FormatNames[CHOOSE k \in 1..Len(FormatMap) : FormatMap[k] = Lower(response_format)]
    ELSE "summary"

\* the EnhancedMemosSearchParams the search_memos_enhanced tool constructs
ToolParams(args) ==
    EnhancedMemosSearchParams(
        [query              |-> args.query,
         limit              |-> Min(args.limit, MaxLimit),
         offset             |-> args.offset,
         fields             |-> DefaultFields,
         response_format    |-> FormatOf(args.response_format),
         content_max_length |-> args.content_max_length,
         date_from          |-> args.date_from,
         date_to            |-> args.date_to,
         tags_filter        |-> IF args.tags_filter = <<>> THEN <<>> ELSE args.tags_filter[1],
         summary_only       |-> FormatOf(args.response_format) = "summary",
         group_by_tag       |-> FALSE])

\* what a tool returns or raises, given what the client returned or raised
ToolOutcome(r) == IF "exception" \in DOMAIN r THEN McpError(r) ELSE r

\* the search_memos_enhanced tool
search_memos_enhanced_tool(args, fetch) ==
    ToolOutcome(search_memos_enhanced(fetch, ToolParams(args)))

BackwardLimit == 20

\* what search_memos returns, given what search_memos_enhanced returned or raised
MemosOf(r) == IF "exception" \in DOMAIN r THEN r ELSE r.memos

\* EnhancedMemos.search_memos, the backward compatible search
search_memos(fetch, query) ==
    MemosOf(search_memos_enhanced(fetch,
                EnhancedMemosSearchParams([DefaultInput EXCEPT
                    !.query = query, !.limit = BackwardLimit,
                    !.response_format = "full"])))

\* Memos.search_memos of src/memos.py, the original search
Memos_search_memos(fetch, query) ==
    IF "raised" \in DOMAIN fetch
    THEN MemosException("Error searching memos", fetch.raised)
    ELSE IF fetch.status = 200
    THEN IF query # <<>>
         THEN SelectMask(Get(fetch.body, "memos", <<>>),
                         AsList([i \in 1..Len(Get(fetch.body, "memos", <<>>)) |->
                                    QueryMatches(Get(fetch.body, "memos", <<>>)[i], query)]))
         ELSE Get(fetch.body, "memos", <<>>)
    ELSE MemosException("Error searching memos", ToString(fetch.status))

DEFAULT_TAG == <<"#", "M", "C", "P">>

\* variant: the default tag is appended to the list that was passed
CreateMemoTagsInPlace(tags) ==
    [passed |-> IF InList(DEFAULT_TAG, tags) THEN tags ELSE Append(tags, DEFAULT_TAG),
     sent   |-> IF InList(DEFAULT_TAG, tags) THEN tags ELSE Append(tags, DEFAULT_TAG)]

\* the create_memo tool: the list object passed as tags after the call, and
\* the tags_with_default it hands to the client
CreateMemoTags(tags) ==
    [passed |-> tags,
     sent   |-> IF InList(DEFAULT_TAG, tags) THEN tags ELSE Append(tags, DEFAULT_TAG)]

\* the update_memo tool hands its tags to the client as they are
UpdateMemoTags(tags) == [passed |-> tags, sent |-> tags]

\* "formatted_content = content; if tags: formatted_content += '\n\n' + ' '.join(tags)"
FormattedContent(content, tags) ==
    IF tags # <<>> THEN content \o <<"\n", "\n">> \o Join(tags, <<" ">>) ELSE content

\* "memo_id.split('/')[1]" of a full name "memos/XXX", else the id itself
MemoName(memo_id) == memo_id.id

\* what a write call returns or raises, given the result of its request
WriteOutcome(what, ok_statuses, result, memo) ==
    IF "raised" \in DOMAIN result THEN MemosException(what, result.raised)
    ELSE IF result.status \in ok_statuses THEN memo
    ELSE MemosException(what, ToString(result.status))

(***************************************************************************)
(* The arguments of the tool calls of the model.                           *)
(***************************************************************************)
FormatStrings ==
    {<<"f", "u", "l", "l">>, <<"F", "U", "L", "L">>, <<"M", "i", "n", "i", "m", "a", "l">>,
     <<"s", "u", "m", "m", "a", "r", "y">>, <<"i", "d", "_", "o", "n", "l", "y">>,
     <<"I", "D", "_", "O", "N", "L", "Y">>, <<"x", "m", "l">>, <<>>,
     <<"f", "u", "l", "l", " ">>}

ToolSearchArgs ==
    {[query |-> q, limit |-> l, offset |-> 0, response_format |-> f,
      content_max_length |-> DefaultContentLength, date_from |-> None, date_to |-> None,
      tags_filter |-> t] :
        q \in {<<>>, <<"a">>}, l \in {1, 100}, f \in FormatStrings,
        t \in {None, Some(<< <<"a">> >>)}}

WriteContents == {<<"a">>}

\* the tags argument of a write call: left out, or a list of the caller
TagArguments ==
    {None, Some(<<>>), Some(<<DEFAULT_TAG>>), Some(<< <<"x">> >>)}

\* the results of the POST and PATCH requests
WriteResults ==
    {[status |-> 200], [status |-> 201], [status |-> 204]}
    \cup {[raised |-> e] : e \in RequestFailures}

ToolStores ==
    {<<>>, <<PoolMemos[1]>>, <<PoolMemos[2], PoolMemos[4]>>, BigStore}

ToolInit ==
    /\ store \in ToolStores
    /\ input = DefaultInput
    /\ params = EnhancedMemosSearchParams(DefaultInput)
    /\ pc = "idle"
    /\ all_memos = <<>>
    /\ filtered_memos = <<>>
    /\ paginated_memos = <<>>
    /\ response = NoResponse
    /\ pages = <<>>
    /\ calls = 0
    /\ first_offset = 0
    /\ stable = TRUE
    /\ call = NoCall
    /\ tool = NoTool
    /\ inv = NoInvocations

\* a call of the search_memos_enhanced tool
ToolSearch(args, fetch) ==
    /\ tool.op = "none"
    /\ tool' = [tool EXCEPT !.op = "search_memos_enhanced",
                            !.args = [args |-> args, fetch |-> fetch],
                            !.params = ToolParams(args),
                            !.sent = [method |-> "GET"],
                            !.caller_tags = <<>>,
                            !.outcome = search_memos_enhanced_tool(args, fetch)]
    /\ UNCHANGED <<searchVars, call, inv>>

\* a call of EnhancedMemos.search_memos
SearchMemos(query, fetch) ==
    /\ tool.op = "none"
    /\ tool' = [tool EXCEPT !.op = "search_memos",
                            !.args = [query |-> query, fetch |-> fetch],
                            !.sent = [method |-> "GET"],
                            !.caller_tags = <<>>,
                            !.outcome = search_memos(fetch, query)]
    /\ UNCHANGED <<searchVars, call, inv>>

\* a call of the create_memo tool; the note store adds the memo it accepts
CreateMemo(content, tags, result) ==
    /\ tool.op = "none"
    /\ Accepted(result, {200, 201}) => Len(store) < MaxStoreLen
    /\ \E t \in {CreateMemoTags(IF tags = None THEN tool.create_default ELSE tags[1])} :
       \E memo \in {[name |-> ToString(Len(store) + 1),
                     content |-> FormattedContent(content, t.sent)]} :
          /\ tool' = [tool EXCEPT
                        !.op = "create_memo",
                        !.args = [content |-> content, tags |-> tags, result |-> result],
                        !.sent = [method |-> "POST",
                                  payload |-> [content |-> memo.content,
                                               visibility |-> "PRIVATE"]],
                        !.caller_tags = IF tags = None THEN None ELSE Some(t.passed),
                        !.create_default = IF tags = None THEN t.passed ELSE @,
                        !.outcome = ToolOutcome(WriteOutcome("Error creating memo",
                                                             {200, 201}, result, memo))]
          /\ store' = IF Accepted(result, {200, 201}) THEN Append(store, memo) ELSE store
    /\ UNCHANGED <<input, params, pc, all_memos, filtered_memos, paginated_memos,
                   response, pages, calls, first_offset, stable, call, inv>>

\* a call of the update_memo tool on the first memo of the store; the note
\* store replaces the content of the memo
UpdateMemo(memo_id, content, tags, result) ==
    /\ tool.op = "none"
    /\ store # <<>>
    /\ MemoName(memo_id) = store[1].name
    /\ \E t \in {UpdateMemoTags(IF tags = None THEN tool.update_default ELSE tags[1])} :
       \E memo \in {[store[1] EXCEPT !.content = FormattedContent(content, t.sent)]} :
          /\ tool' = [tool EXCEPT
                        !.op = "update_memo",
                        !.args = [memo_id |-> memo_id, content |-> content, tags |-> tags,
                                  result |-> result],
                        !.sent = [method |-> "PATCH", name |-> MemoName(memo_id),
                                  payload |-> [content |-> memo.content]],
                        !.caller_tags = IF tags = None THEN None ELSE Some(t.passed),
                        !.update_default = IF tags = None THEN t.passed ELSE @,
                        !.outcome = ToolOutcome(WriteOutcome("Error updating memo",
                                                             {200}, result, memo))]
          /\ store' = IF Accepted(result, {200}) THEN [store EXCEPT ![1] = memo] ELSE store
    /\ UNCHANGED <<input, params, pc, all_memos, filtered_memos, paginated_memos,
                   response, pages, calls, first_offset, stable, call, inv>>

\* the caller has taken the outcome of the tool call; the default argument
\* objects live on
ToolDone ==
    /\ tool.op # "none"
    /\ tool' = [NoTool EXCEPT !.create_default = tool.create_default,
                              !.update_default = tool.update_default,
                              !.client_update_default = tool.client_update_default]
    /\ UNCHANGED <<searchVars, call, inv>>

ToolNext ==
    \/ \E args \in ToolSearchArgs, fetch \in Fetches(store) : ToolSearch(args, fetch)
    \/ \E query \in {<<>>, <<"a">>}, fetch \in Fetches(store) : SearchMemos(query, fetch)
    \/ \E content \in WriteContents, tags \in TagArguments, result \in WriteResults :
          CreateMemo(content, tags, result)
    \/ \E name \in {store[i].name : i \in 1..Min(1, Len(store))}, full \in BOOLEAN,
          content \in WriteContents, tags \in TagArguments, result \in WriteResults :
          UpdateMemo([full |-> full, id |-> name], content, tags, result)
    \/ ToolDone

ToolSpec == ToolInit /\ [][ToolNext]_vars

(***************************************************************************)
(* Concurrent invocations of search_memos_enhanced on one client.  Each    *)
(* invocation has its own parameters and locals; a step is one stage of    *)
(* one invocation.  inv[i].pc is "idle", "called", "fetched", "filtered",  *)
(* "sorted", "paginated", "formatted", "resorted" or "returned";           *)
(* inv[i].fetched keeps the collection as the fetch returned it.           *)
(***************************************************************************)
Invocations == {1, 2}

Idle ==
    [pc |-> "idle", params |-> <<>>, fetched |-> <<>>, all_memos |-> <<>>,
     filtered_memos |-> <<>>, paged |-> <<>>, formatted_memos |-> <<>>, response |-> <<>>]

\* the requests of the concurrent callers: ranked summaries, an unfiltered
\* page of ids, full records
ConcInputs ==
    {[DefaultInput EXCEPT !.query = <<"a">>, !.limit = 2],
     [DefaultInput EXCEPT !.limit = 1, !.response_format = "id_only"],
     [DefaultInput EXCEPT !.query = <<"B">>, !.response_format = "full"]}

ConcInit ==
    /\ store = <<PoolMemos[1], PoolMemos[2]>>
    /\ input = DefaultInput
    /\ params = EnhancedMemosSearchParams(DefaultInput)
    /\ pc = "idle"
    /\ all_memos = <<>>
    /\ filtered_memos = <<>>
    /\ paginated_memos = <<>>
    /\ response = NoResponse
    /\ pages = <<>>
    /\ calls = 0
    /\ first_offset = 0
    /\ stable = TRUE
    /\ call = NoCall
    /\ tool = NoTool
    /\ inv = [i \in Invocations |-> Idle]

\* a caller constructs its parameters and calls search_memos_enhanced
Invoke(i, in) ==
    /\ inv[i].pc = "idle"
    /\ inv' = [inv EXCEPT ![i] = [Idle EXCEPT !.pc = "called",
                                              !.params = EnhancedMemosSearchParams(in)]]
    /\ UNCHANGED <<searchVars, call, tool>>

\* "all_memos = response.json().get("memos", [])"
Fetch(i) ==
    /\ inv[i].pc = "called"
    /\ inv' = [inv EXCEPT ![i].pc = "fetched", ![i].fetched = store, ![i].all_memos = store]
    /\ UNCHANGED <<searchVars, call, tool>>

\* variant: the filtered list is kept on the client, where every invocation reads it
FilterShared(i) ==
    /\ inv[i].pc = "fetched"
    /\ inv' = [j \in Invocations |->
                 IF j = i
                 THEN [inv[j] EXCEPT !.pc = "filtered",
                          !.filtered_memos = FilterMemos(inv[i].all_memos, inv[i].params)]
                 ELSE [inv[j] EXCEPT
                          !.filtered_memos = FilterMemos(inv[i].all_memos, inv[i].params)]]
    /\ UNCHANGED <<searchVars, call, tool>>

\* the query, tag and date filters
Filter(i) ==
    /\ inv[i].pc = "fetched"
    /\ inv' = [inv EXCEPT ![i].pc = "filtered",
                          ![i].filtered_memos = FilterMemos(inv[i].all_memos, inv[i].params)]
    /\ UNCHANGED <<searchVars, call, tool>>

\* no filter applies: filtered_memos is the list all_memos itself
Aliased(p) == p.query = <<>> /\ p.tags_filter = <<>> /\ ~Truthy(p.date_from) /\ ~Truthy(p.date_to)

\* variant: records created at the same time come out in either order
SortEitherOrder(i) ==
    /\ inv[i].pc = "filtered"
    /\ \E sorted \in {SortByCreateTime(inv[i].filtered_memos),
                      SortByCreateTime([k \in 1..Len(inv[i].filtered_memos) |->
                          inv[i].filtered_memos[Len(inv[i].filtered_memos) + 1 - k]])} :
          inv' = [inv EXCEPT ![i].pc = "sorted",
                             ![i].filtered_memos = sorted,
                             ![i].all_memos = IF Aliased(inv[i].params) THEN sorted ELSE @]
    /\ UNCHANGED <<searchVars, call, tool>>

\* "filtered_memos.sort(...)", in place
Sort(i) ==
    /\ inv[i].pc = "filtered"
    /\ \E sorted \in {SortByCreateTime(inv[i].filtered_memos)} :
          inv' = [inv EXCEPT ![i].pc = "sorted",
                             ![i].filtered_memos = sorted,
                             ![i].all_memos = IF Aliased(inv[i].params) THEN sorted ELSE @]
    /\ UNCHANGED <<searchVars, call, tool>>

Paginate(i) ==
    /\ inv[i].pc = "sorted"
    /\ inv' = [inv EXCEPT ![i].pc = "paginated",
                          ![i].paged = _paginate_results(inv[i].filtered_memos, inv[i].params)]
    /\ UNCHANGED <<searchVars, call, tool>>

Format(i) ==
    /\ inv[i].pc = "paginated"
    /\ inv' = [inv EXCEPT ![i].pc = "formatted",
                          ![i].formatted_memos = FormatNotes(inv[i].paged.items, inv[i].params)]
    /\ UNCHANGED <<searchVars, call, tool>>

Resort(i) ==
    /\ inv[i].pc = "formatted"
    /\ inv' = [inv EXCEPT ![i].pc = "resorted",
                          ![i].formatted_memos = ResortNotes(inv[i].formatted_memos,
                                                             inv[i].params)]
    /\ UNCHANGED <<searchVars, call, tool>>

\* "return SearchResponse(...)"
Return(i) ==
    /\ inv[i].pc = "resorted"
    /\ inv' = [inv EXCEPT ![i].pc = "returned",
                          ![i].response = SearchResponse(inv[i].paged, inv[i].formatted_memos,
                                                         inv[i].params)]
    /\ UNCHANGED <<searchVars, call, tool>>

\* the caller has taken the response
Take(i) ==
    /\ inv[i].pc = "returned"
    /\ inv' = [inv EXCEPT ![i] = Idle]
    /\ UNCHANGED <<searchVars, call, tool>>

\* another client of the note store inserts a memo
StoreInsert ==
    /\ Len(store) < MaxStoreLen
    /\ \E k \in 1..Len(PoolMemos) :
          /\ ~InList(PoolMemos[k], store)
          /\ store' = <<PoolMemos[k]>> \o store
    /\ UNCHANGED <<input, params, pc, all_memos, filtered_memos, paginated_memos,
                   response, pages, calls, first_offset, stable, otherVars>>

\* a stage of invocation i
Stage(i) ==
    \/ Fetch(i) \/ Filter(i) \/ Sort(i) \/ Paginate(i)
    \/ Format(i) \/ Resort(i) \/ Return(i)

ConcNext ==
    \/ \E i \in Invocations, in \in ConcInputs : Invoke(i, in)
    \/ \E i \in Invocations : Stage(i)
    \/ \E i \in Invocations : Take(i)
    \/ StoreInsert

ConcSpec == ConcInit /\ [][ConcNext]_vars

(***************************************************************************)
(* Properties.                                                             *)
(***************************************************************************)
Done == pc = "done"

\* position of the record called name in a list of records
PosOf(list, name) == CHOOSE i \in 1..Len(list) : Get(list[i], "name", "") = name

\* the predicates of a search, as the filter contract states them
Satisfies(m, p) ==
    /\ p.query # <<>> =>
          \E i \in 0..(Len(Get(m, "content", <<>>)) - Len(p.query)) :
              Lower(SubSeq(Get(m, "content", <<>>), i + 1, i + Len(p.query))) = Lower(p.query)
    /\ p.tags_filter # <<>> =>
          \E i \in 1..Len(p.tags_filter), j \in 1..Len(Get(m, "tags", <<>>)) :
              p.tags_filter[i] = Get(m, "tags", <<>>)[j]
    /\ Truthy(p.date_from) => StrLeq(p.date_from[1], Get(m, "createTime", <<>>))
    /\ Truthy(p.date_to) => StrLeq(Get(m, "createTime", <<>>), p.date_to[1])

SatisfyingIndices == {i \in 1..Len(all_memos) : Satisfies(all_memos[i], params)}

\* C1: whatever integers are given for limit, offset and content_max_length,
\* the constructed parameters have 1 <= limit <= 50, offset >= 0 and
\* 50 <= content_max_length <= 2000, a value already in range is kept, and
\* the construction succeeds (the parameters exist) for out-of-range input.
ClampedParams ==
    /\ params.limit \in 1..50
    /\ params.offset >= 0
    /\ params.content_max_length \in 50..2000
    /\ input.limit \in 1..50 => params.limit = input.limit
    /\ input.offset >= 0 => params.offset = input.offset
    /\ input.content_max_length \in 50..2000 =>
          params.content_max_length = input.content_max_length

ClampedParamsWitness ==
    /\ pc = "ready"
    /\ input.limit < 1 /\ input.offset < 0 /\ params.limit = 1 /\ params.offset = 0

\* C2: in every response has_more is true exactly when offset + limit is
\* below total_count, total_count is the number of fetched records that
\* pass the filters, and next_offset is offset + limit when has_more and -1
\* otherwise.
HasMoreAndNextOffset ==
    Done =>
        /\ response.total_count = Cardinality(SatisfyingIndices)
        /\ response.has_more <=> (params.offset + params.limit < response.total_count)
        /\ response.has_more => response.next_offset = params.offset + params.limit
        /\ ~response.has_more => response.next_offset = -1

HasMoreWitness ==
    /\ Done /\ response.has_more /\ params.offset > 0
    /\ response.next_offset = params.offset + params.limit

\* C3: the page is the part [offset, offset + limit) of the filtered sorted
\* list, clipped to the list: it holds min(limit, max(0, total - offset))
\* records, an offset at or beyond the end gives an empty page, and the
\* twelve-record collection with limit 5 and offset 10 gives its two oldest
\* records with has_more false, next_offset -1 and total_count 12.
PageIsWindow ==
    Done =>
        /\ Len(paginated_memos) =
              Min(params.limit, Max(0, Len(filtered_memos) - params.offset))
        /\ \A i \in 1..Len(paginated_memos) :
              paginated_memos[i] = filtered_memos[params.offset + i]
        /\ params.offset >= Len(filtered_memos) => response.memos = <<>>
        /\ (all_memos = DatedStore /\ params.limit = 5 /\ params.offset = 10) =>
              /\ [i \in 1..Len(response.memos) |-> response.memos[i]["id"]] = <<"2", "1">>
              /\ ~response.has_more
              /\ response.next_offset = -1
              /\ response.total_count = 12

PageIsWindowWitness ==
    Done /\ all_memos = DatedStore /\ params.limit = 5 /\ params.offset = 10

\* C4 as stated: for every collection, asking for offset 0 and a limit equal
\* to the size of the collection returns the whole collection and has_more
\* false.
WholeCollectionPage ==
    (Done /\ input.offset = 0 /\ input.limit = Len(filtered_memos)) =>
        /\ paginated_memos = filtered_memos
        /\ ~response.has_more

\* C4 amended: that holds for a collection of at most 50 records; for a
\* larger one the limit is clamped to 50, the page is the first 50 records
\* and has_more is true.
WholeCollectionPageUpTo50 ==
    (Done /\ input.offset = 0 /\ input.limit = Len(filtered_memos)) =>
        IF Len(filtered_memos) <= 50
        THEN paginated_memos = filtered_memos /\ ~response.has_more
        ELSE paginated_memos = SubSeq(filtered_memos, 1, 50) /\ response.has_more

WholeCollectionWitness ==
    /\ Done /\ input.offset = 0 /\ input.limit = Len(filtered_memos)
    /\ Len(filtered_memos) > 50 /\ Len(paginated_memos) = 50

\* C5: in a paging loop that starts at offset 0, passes each next_offset
\* on and runs on an unchanged collection, the ids returned so far are
\* exactly the ids of the first calls * limit records of the filtered list,
\* each once; the loop goes on only while calls * limit is below the total,
\* so it ends with next_offset = -1 after at most total_count + 1 calls,
\* and then every record of the filtered list has been returned once.
PagingCoversOnce ==
    (Done /\ stable /\ first_offset = 0) =>
        LET total   == Len(filtered_memos)
            covered == Min(total, calls * params.limit)
        IN  /\ Len(pages) = covered
            /\ \A i \in 1..covered :
                  Cardinality({j \in 1..Len(pages) : pages[j] = filtered_memos[i]["name"]}) = 1
            /\ response.has_more => calls * params.limit < total
            /\ ~response.has_more => response.next_offset = -1 /\ covered = total

PagingWitness ==
    /\ Done /\ stable /\ first_offset = 0 /\ calls >= 2 /\ params.query # <<>>
    /\ ~response.has_more /\ Len(pages) = Len(filtered_memos) /\ Len(pages) >= 3

\* C6: the filtered collection holds exactly the fetched records that pass
\* every active predicate (text, case-insensitive; tag, exact; dates, by
\* string comparison, both bounds inclusive; a date bound is set when it is
\* a non-empty string), each once; with no record passing, the response is
\* empty with total_count 0, has_more false and next_offset -1.
FilteredIsMatching ==
    Done =>
        /\ Len(filtered_memos) = Cardinality(SatisfyingIndices)
        /\ \A i \in 1..Len(all_memos) :
              (i \in SatisfyingIndices) <=>
                  (\E j \in 1..Len(filtered_memos) : filtered_memos[j] = all_memos[i])
        /\ SatisfyingIndices = {} =>
              /\ response.memos = <<>>
              /\ response.total_count = 0
              /\ ~response.has_more
              /\ response.next_offset = -1

FilteredWitness ==
    /\ Done /\ params.query # <<>> /\ params.tags_filter # <<>>
    /\ Truthy(params.date_from) /\ Truthy(params.date_to)
    /\ Len(filtered_memos) >= 1 /\ Len(filtered_memos) < Len(all_memos)
    /\ \E i \in 1..Len(filtered_memos) :
          Get(filtered_memos[i], "createTime", <<>>) = params.date_to[1]

\* C7: before pagination the filtered records are in descending createTime
\* order, and records with the same createTime are in the order they have
\* in the fetched collection.
SortedNewestFirst ==
    Done =>
        \A i, j \in 1..Len(filtered_memos) :
            i < j =>
                /\ StrLeq(CreateKey(filtered_memos[j]), CreateKey(filtered_memos[i]))
                /\ CreateKey(filtered_memos[i]) = CreateKey(filtered_memos[j]) =>
                      PosOf(all_memos, filtered_memos[i]["name"])
                          < PosOf(all_memos, filtered_memos[j]["name"])

SortedWitness ==
    /\ Done
    /\ \E i, j \in 1..Len(filtered_memos) :
          /\ i < j
          /\ CreateKey(filtered_memos[i]) = CreateKey(filtered_memos[j])
          /\ \E k \in 1..Len(filtered_memos) :
                CreateKey(filtered_memos[k]) # CreateKey(filtered_memos[i])
    /\ filtered_memos # all_memos

\* C8: with response format id_only every formatted note has the single
\* key id, whatever the query, summary_only, fields and content_max_length.
IdOnlyHasOneKey ==
    (Done /\ params.response_format = "id_only") =>
        \A i \in 1..Len(response.memos) : DOMAIN response.memos[i] = {"id"}

IdOnlyWitness ==
    /\ Done /\ params.response_format = "id_only"
    /\ params.query # <<>> /\ params.summary_only
    /\ Len(response.memos) >= 2

\* C9: with response format minimal every formatted note has exactly the
\* keys id, createTime, updateTime, snippet and tags (no content), and its
\* snippet is the first line of the record's content cut to 100 characters:
\* a prefix of the content without a line break, of at most 100 characters,
\* that stops only at 100 characters, at a line break or at the end.
MinimalShape ==
    (Done /\ params.response_format = "minimal") =>
        /\ Len(response.memos) = Len(paginated_memos)
        /\ \A i \in 1..Len(response.memos) :
              LET note    == response.memos[i]
                  content == Get(paginated_memos[PosOf(paginated_memos, note["id"])],
                                 "content", <<>>)
                  snip    == note["snippet"]
              IN  /\ DOMAIN note = {"id", "createTime", "updateTime", "snippet", "tags"}
                  /\ Len(snip) <= 100
                  /\ snip = SubSeq(content, 1, Len(snip))
                  /\ \A k \in 1..Len(snip) : snip[k] # "\n"
                  /\ \/ Len(snip) = 100
                     \/ Len(snip) = Len(content)
                     \/ content[Len(snip) + 1] = "\n"

MinimalWitness ==
    /\ Done /\ params.response_format = "minimal"
    /\ \E i \in 1..Len(response.memos) :
          Len(response.memos[i]["snippet"]) = MinimalSnippetLen
    /\ \E i \in 1..Len(response.memos) : response.memos[i]["snippet"] = <<>>
    /\ \E i \in 1..Len(response.memos) :
          /\ Len(response.memos[i]["snippet"]) = 2
          /\ Len(paginated_memos[PosOf(paginated_memos, response.memos[i]["id"])]["content"]) > 2

\* C10 as stated: with response format summary a formatted note has the
\* fields id, createTime, updateTime, tags and content, plus match_snippets
\* and relevance_score when a query is active, and no other field.
SummaryFieldsAsStated ==
    (Done /\ params.response_format = "summary") =>
        \A i \in 1..Len(response.memos) :
            DOMAIN response.memos[i] =
                {"id", "createTime", "updateTime", "tags", "content"}
                \cup (IF params.query # <<>> THEN {"match_snippets", "relevance_score"}
                      ELSE {})

\* C10 amended: the note also always has the field snippet, holding the
\* record's own snippet field (the empty string when the record has none).
SummaryFields ==
    (Done /\ params.response_format = "summary") =>
        \A i \in 1..Len(response.memos) :
            LET note == response.memos[i]
                memo == paginated_memos[PosOf(paginated_memos, note["id"])]
            IN  /\ DOMAIN note =
                      {"id", "createTime", "updateTime", "tags", "content", "snippet"}
                      \cup (IF params.query # <<>>
                            THEN {"match_snippets", "relevance_score"} ELSE {})
                /\ note["snippet"] = Get(memo, "snippet", <<>>)

SummaryFieldsWitness ==
    /\ Done /\ params.response_format = "summary"
    /\ \E i \in 1..Len(response.memos) : response.memos[i]["snippet"] # <<>>
    /\ \E i \in 1..Len(response.memos) : response.memos[i]["snippet"] = <<>>
    /\ \E i \in 1..Len(response.memos) : "relevance_score" \in DOMAIN response.memos[i]

\* C11: with response format full a formatted note has id, createTime and
\* updateTime and, of the names in params.fields, exactly those the raw
\* record has, each with the raw record's value (a name the record lacks is
\* left out); and in the formats id_only, minimal and summary no formatted
\* note has the field nodes.
FullShape ==
    Done =>
        /\ params.response_format = "full" =>
              /\ Len(response.memos) = Len(paginated_memos)
              /\ \A i \in 1..Len(response.memos) :
                    LET note   == response.memos[i]
                        memo   == paginated_memos[PosOf(paginated_memos, note["id"])]
                        wanted == {params.fields[k] : k \in 1..Len(params.fields)}
                    IN  /\ DOMAIN note = {"id", "createTime", "updateTime"}
                                         \cup (wanted \cap DOMAIN memo)
                        /\ \A f \in wanted \cap DOMAIN memo : note[f] = memo[f]
        /\ params.response_format # "full" =>
              \A i \in 1..Len(response.memos) : "nodes" \notin DOMAIN response.memos[i]

FullShapeWitness ==
    /\ Done /\ params.response_format = "full"
    /\ \E k \in 1..Len(params.fields) : params.fields[k] = "pinned"
    /\ \E i \in 1..Len(response.memos) :
          /\ "nodes" \in DOMAIN response.memos[i]
          /\ "pinned" \notin DOMAIN response.memos[i]
    /\ \E i \in 1..Len(response.memos) : "content" \notin DOMAIN response.memos[i]

\* C12 as stated: when the query is non-empty, every formatted note of the
\* formats minimal, summary and full carries a relevance score and match
\* snippets.
ScoreInEveryFormat ==
    (Done /\ params.query # <<>> /\ params.response_format # "id_only") =>
        \A i \in 1..Len(response.memos) :
            {"relevance_score", "match_snippets"} \subseteq DOMAIN response.memos[i]

\* C12 amended: when the query is non-empty, a formatted note carries a
\* relevance score and match snippets (between one and three) exactly when
\* the response format is summary; the notes of the formats minimal, full
\* and id_only carry neither, and their page keeps its creation-time order.
ScoreInSummaryOnly ==
    (Done /\ params.query # <<>>) =>
        /\ Len(response.memos) = Len(paginated_memos)
        /\ \A i \in 1..Len(response.memos) :
              LET note == response.memos[i]
              IN  IF params.response_format = "summary"
                  THEN /\ {"relevance_score", "match_snippets"} \subseteq DOMAIN note
                       /\ Len(note["match_snippets"]) \in 1..MaxSnippets
                       /\ ~ScoreLess(note["relevance_score"], <<0, 1>>)
                       /\ ~ScoreLess(<<1, 1>>, note["relevance_score"])
                  ELSE /\ {"relevance_score", "match_snippets"} \cap DOMAIN note = {}
                       /\ note["id"] = Get(paginated_memos[i], "name", "")

ScoreInSummaryWitness ==
    /\ Done /\ params.query # <<>> /\ params.response_format = "summary"
    /\ Len(response.memos) >= 2
    /\ \E i \in 1..Len(response.memos) : Len(response.memos[i]["match_snippets"]) = 2
    /\ \E i, j \in 1..Len(response.memos) :
          ScoreLess(response.memos[j]["relevance_score"], response.memos[i]["relevance_score"])

\* C13: when the query is non-empty and at least one formatted note carries
\* a relevance score, the memos of the response are in non-increasing score
\* order (a note without a score counting as 0), and two notes with the same
\* score are in the order their records have on the creation-time-sorted
\* page.
RelevanceSorted ==
    (/\ Done /\ params.query # <<>>
     /\ \E i \in 1..Len(response.memos) : "relevance_score" \in DOMAIN response.memos[i]) =>
        \A i, j \in 1..Len(response.memos) :
            i < j =>
                LET a == ScoreOf(response.memos[i])
                    b == ScoreOf(response.memos[j])
                IN  /\ a[1] * b[2] >= b[1] * a[2]
                    /\ a = b => PosOf(paginated_memos, response.memos[i]["id"])
                                < PosOf(paginated_memos, response.memos[j]["id"])

RelevanceSortedWitness ==
    /\ Done /\ params.query # <<>> /\ Len(response.memos) = 3
    /\ "relevance_score" \in DOMAIN response.memos[1]
    /\ response.memos[2]["relevance_score"] = response.memos[3]["relevance_score"]
    /\ response.memos[1]["relevance_score"] # response.memos[2]["relevance_score"]
    /\ response.memos[1]["id"] # Get(paginated_memos[1], "name", "")

\* C14: in every response the ids of the memos are, as a multiset, the ids
\* of the records at the positions offset+1 .. offset+limit of the filtered
\* list in creation-time order: the relevance re-sort only permutes the
\* page and returns no record from outside it.
PageIdsOfWindow ==
    Done =>
        LET window == {k \in 1..Len(filtered_memos) :
                          params.offset < k /\ k <= params.offset + params.limit}
            ids    == {Get(filtered_memos[k], "name", "") : k \in 1..Len(filtered_memos)}
                      \cup {response.memos[i]["id"] : i \in 1..Len(response.memos)}
        IN  \A id \in ids :
                Cardinality({i \in 1..Len(response.memos) : response.memos[i]["id"] = id})
                = Cardinality({k \in window : Get(filtered_memos[k], "name", "") = id})

PageIdsOfWindowWitness ==
    /\ Done /\ params.query # <<>> /\ params.response_format = "summary"
    /\ Len(response.memos) = 2
    /\ response.memos[1]["id"] # Get(paginated_memos[1], "name", "")
    /\ \E k \in 1..Len(filtered_memos) :
          /\ k > params.offset + params.limit
          /\ \A i \in 1..Len(response.memos) :
                ScoreLess(response.memos[i]["relevance_score"],
                          _calculate_relevance_score(Get(filtered_memos[k], "content", <<>>),
                                                     params.query,
                                                     Get(filtered_memos[k], "tags", <<>>)))

\* a primitive has returned
Returned(op) == call.op = op /\ call.pc = "returned"

\* the 0-based positions at which query occurs in content, ignoring case
MatchPositions(content, query) ==
    {i \in 0..(Len(content) - Len(query)) :
        \A k \in 1..Len(query) : LowerChar(content[i + k]) = LowerChar(query[k])}

\* the number of occurrences of query in content, ignoring case: the most
\* occurrences that can be taken without two of them overlapping
OccurrenceCount(content, query) ==
    LET P    == MatchPositions(content, query)
        free == {S \in SUBSET P :
                    \A x, y \in S : x < y => y - x >= Len(query)}
    IN  CHOOSE n \in 0..Cardinality(P) :
            /\ \E S \in free : Cardinality(S) = n
            /\ \A S \in free : Cardinality(S) <= n

\* C15: _calculate_relevance_score returns 1/2 for an empty query; for a
\* non-empty query it returns min(1, raw/10) where raw is the number of
\* occurrences of the query in the content (ignoring case), plus 2 when the
\* query occurs in the first line, plus 1 when some tag contains the query,
\* plus 1 - firstMatchIndex/len(content) when the content matches; and the
\* result lies in [0, 1].  The score <<n, d>> is the rational n/d.
ScoreAsStated ==
    Returned("_calculate_relevance_score") =>
        LET content == call.content
            query   == call.query
            n       == call.ret[1]
            d       == call.ret[2]
            P       == MatchPositions(content, query)
            lineEnd == CHOOSE e \in 0..Len(content) :
                          /\ e = Len(content) \/ content[e + 1] = "\n"
                          /\ \A k \in 1..e : content[k] # "\n"
            title   == IF MatchPositions(SubSeq(content, 1, lineEnd), query) # {}
                       THEN 2 ELSE 0
            tag     == IF \E t \in 1..Len(call.tags) :
                             MatchPositions(call.tags[t], query) # {}
                       THEN 1 ELSE 0
            first   == CHOOSE i \in P : \A j \in P : i <= j
            \* raw as the fraction rawNum / rawDen
            rawDen  == IF P = {} THEN 1 ELSE Len(content)
            rawNum  == (OccurrenceCount(content, query) + title + tag) * rawDen
                       + (IF P = {} THEN 0 ELSE Len(content) - first)
        IN  /\ d > 0 /\ 0 <= n /\ n <= d
            /\ query = <<>> => 2 * n = d
            /\ query # <<>> =>
                  IF rawNum >= 10 * rawDen THEN n = d
                  ELSE n * 10 * rawDen = rawNum * d

ScoreAsStatedWitness ==
    /\ Returned("_calculate_relevance_score")
    /\ call.content = <<"A", "\n", "a">> /\ call.query = <<"a">>
    /\ call.tags # <<>>
    /\ call.ret = <<3, 5>>

\* the i-th smallest element of a set of numbers
Nth(P, i) == CHOOSE p \in P : Cardinality({x \in P : x < p}) = i - 1

\* the result of _extract_snippet_around_match, as C16 states it
ExtractResult ==
    /\ Returned("_extract_snippet_around_match")
    /\ (call.query = <<>> \/ call.content = <<>>) => call.ret = <<>>
    /\ (call.query # <<>> /\ call.content # <<>>) =>
          LET P == MatchPositions(call.content, call.query)
          IN  /\ Len(call.ret) = Cardinality(P)
              /\ \A i \in 1..Len(call.ret) :
                    Contains(Bold \o SubSeq(call.content, Nth(P, i) + 1,
                                            Nth(P, i) + Len(call.query)) \o Bold,
                             call.ret[i])
    /\ (call.content = HelloContent /\ call.query = HelloQuery) => Len(call.ret) = 2

\* C16: every call of _extract_snippet_around_match returns, and it returns
\* one snippet per position at which the query occurs in the content
\* ignoring case, overlapping occurrences included, in left-to-right order
\* and each with its match marked; the empty list when the query or the
\* content is empty; two snippets for "hello world hello" and "hello".
ExtractTerminates ==
    (call.op = "_extract_snippet_around_match" /\ call.pc = "called") ~> ExtractResult

ExtractWitness ==
    /\ Returned("_extract_snippet_around_match")
    /\ call.content = <<"a", "a", "a">> /\ call.query = <<"a", "a">>
    /\ Len(call.ret) = 2

\* C17 as stated: in each snippet the marker wraps the matched text at its
\* first occurrence in the snippet and nowhere else: taking the markers out
\* of the snippet and wrapping the first occurrence of the matched text
\* gives the snippet back.
MarkedOnce ==
    Returned("_extract_snippet_around_match") =>
        \A i \in 1..Len(call.ret) :
            LET pos     == Nth(MatchPositions(call.content, call.query), i)
                matched == SubSeq(call.content, pos + 1, pos + Len(call.query))
                plain   == Replace(call.ret[i], Bold, <<>>)
                first   == Find(plain, matched, 0)
            IN  /\ first # -1
                /\ call.ret[i] = SubSeq(plain, 1, first) \o Bold \o matched \o Bold
                                 \o SubSeq(plain, first + Len(matched) + 1, Len(plain))

\* the first line of a text
FirstLineOf(content) ==
    SubSeq(content, 1, CHOOSE e \in 0..Len(content) :
                          /\ e = Len(content) \/ content[e + 1] = "\n"
                          /\ \A k \in 1..e : content[k] # "\n")

\* _generate_smart_summary has returned a summary made of match snippets
SnippetSummary ==
    /\ Returned("_generate_smart_summary")
    /\ call.query # <<>>
    /\ MatchPositions(call.content, call.query) # {}

\* _generate_smart_summary has returned a structural summary
StructuralCase ==
    /\ Returned("_generate_smart_summary")
    /\ call.content # <<>>
    /\ call.query = <<>> \/ MatchPositions(call.content, call.query) = {}

\* C18: for a non-empty query that occurs in the content,
\* _generate_smart_summary returns the first up to three match snippets
\* joined by " [...] ", and when that text is longer than max_length its
\* first max_length characters followed by "...".
SummaryOfSnippets ==
    SnippetSummary =>
        LET sn     == _extract_snippet_around_match(call.content, call.query, ContextChars)
            sep    == <<" ", "[", ".", ".", ".", "]", " ">>
            joined == IF Len(sn) = 1 THEN sn[1]
                      ELSE IF Len(sn) = 2 THEN sn[1] \o sep \o sn[2]
                      ELSE sn[1] \o sep \o sn[2] \o sep \o sn[3]
        IN  /\ sn # <<>>
            /\ call.ret = IF Len(joined) > call.max_length
                          THEN SubSeq(joined, 1, call.max_length) \o <<".", ".", ".">>
                          ELSE joined

SummaryOfSnippetsWitness ==
    /\ SnippetSummary
    /\ call.content = TripleContent /\ call.query = <<"A">>
    /\ call.max_length = MinContentLength
    /\ Len(call.ret) = MinContentLength + 3

\* C19 as stated: a structural summary always starts with the first line of
\* the content, verbatim and in full.
TitleKept ==
    StructuralCase => StartsWith(call.ret, FirstLineOf(call.content))

\* C19 amended: a structural summary starts with the first line of the
\* content, verbatim and in full, whenever that line has at most max_length
\* characters; a longer first line is cut to its first max_length
\* characters, then back to before its last space if it has one, and "..."
\* is appended: that is the whole summary.
TitleKeptIfItFits ==
    StructuralCase =>
        LET title == FirstLineOf(call.content)
            head  == SubSeq(title, 1, Min(call.max_length, Len(title)))
            sp    == {i \in 1..Len(head) : head[i] = " "}
            keep  == IF sp = {} THEN Len(head)
                     ELSE (CHOOSE i \in sp : \A j \in sp : j <= i) - 1
        IN  IF Len(title) <= call.max_length
            THEN /\ StartsWith(call.ret, title)
                 /\ Len(call.ret) = Len(title) \/ call.ret[Len(title) + 1] = "\n"
            ELSE call.ret = SubSeq(title, 1, keep) \o <<".", ".", ".">>

TitleKeptWitness ==
    /\ StructuralCase
    /\ call.content = <<" ", "\n", "a">>
    /\ call.ret = call.content

\* C20 as stated: in a structural summary that was not cut, no line occurs
\* more often than in the content (lines compared without their surrounding
\* blanks): the second pass appends no line the first pass has appended.
NoLineTwice ==
    (StructuralCase /\ Len(FirstLineOf(call.content)) <= call.max_length) =>
        LET sl == SplitLines(call.ret)
            cl == SplitLines(call.content)
        IN  \A j \in 1..Len(sl) :
                Cardinality({i \in 1..Len(sl) : Strip(sl[i]) = Strip(sl[j])})
                <= Cardinality({k \in 1..Len(cl) : Strip(cl[k]) = Strip(sl[j])})

\* C21: shaping never fails on a record with empty or missing content,
\* missing tags or missing timestamps, nor on single-line content: scoring,
\* summarizing and formatting in every response format return a value, not
\* an exception; the summary of empty content is the empty string, and the
\* score of empty content for a non-empty query is computed without a
\* division (0.1 when a tag matches, 0 otherwise).
ShapingCompletes ==
    /\ Returned("_calculate_relevance_score") =>
          /\ call.ret # ZeroDivisionError
          /\ (call.content = <<>> /\ call.query # <<>>) =>
                call.ret = IF \E i \in 1..Len(call.tags) :
                                 Contains(Lower(call.query), Lower(call.tags[i]))
                           THEN <<1, 10>> ELSE <<0, 1>>
    /\ Returned("_generate_smart_summary") =>
          /\ call.ret # ZeroDivisionError
          /\ call.content = <<>> => call.ret = <<>>
    /\ Returned("_apply_response_format") =>
          /\ "error" \notin DOMAIN call.ret
          /\ call.ret["id"] = call.memo.name
          /\ call.params.response_format = "summary" =>
                /\ "content" \notin DOMAIN call.memo => call.ret["content"] = <<>>
                /\ "tags" \notin DOMAIN call.memo => call.ret["tags"] = <<>>
                /\ "createTime" \notin DOMAIN call.memo => call.ret["createTime"] = <<>>

ShapingCompletesWitness ==
    /\ Returned("_apply_response_format")
    /\ call.memo = [name |-> "m4"]
    /\ call.query # <<>>
    /\ call.params.response_format = "summary"
    /\ call.ret["relevance_score"] = <<0, 1>>

\* the ids of a list of formatted notes, the names of a list of records
IdsOf(notes) == {notes[i]["id"] : i \in 1..Len(notes)}
NamesOf(memos) == {Get(memos[i], "name", "") : i \in 1..Len(memos)}

\* C24: when the fetch fails (an exception of the request, or a status other
\* than 200), search_memos_enhanced raises MemosException with the message
\* "Error searching memos: <failure>" and returns no response, and the tool
\* raises McpError with that message; when the fetch succeeds the outcome is
\* a response, never an exception.
FetchFailureRaises ==
    (tool.op \in {"search_memos_enhanced", "search_memos"}) =>
        LET fetch  == tool.args.fetch
            detail == IF "raised" \in DOMAIN fetch THEN fetch.raised
                      ELSE ToString(fetch.status)
            failed == IF "raised" \in DOMAIN fetch THEN TRUE ELSE fetch.status # 200
        IN  IF tool.op = "search_memos"
            THEN IF failed
                 THEN tool.outcome = [exception |-> "MemosException",
                                      message |-> <<"Error searching memos", detail>>]
                 ELSE DOMAIN tool.outcome = 1..Len(tool.outcome)
            ELSE IF failed
                 THEN tool.outcome = [error |-> "McpError", code |-> "INTERNAL_ERROR",
                                      message |-> <<"Error searching memos", detail>>]
                 ELSE /\ DOMAIN tool.outcome = {"memos", "total_count", "has_more",
                                                "next_offset", "query_metadata"}
                      /\ tool.outcome.query_metadata.returned_count = Len(tool.outcome.memos)

FetchFailureWitness ==
    /\ tool.op = "search_memos_enhanced"
    /\ "raised" \in DOMAIN tool.args.fetch
    /\ store # <<>>
    /\ "error" \in DOMAIN tool.outcome

\* C25: the default tags lists of the create_memo and update_memo tools and
\* of the client stay empty and the caller's list is the same after a call
\* as before, whatever calls were made; create_memo sends the caller's tags
\* followed by the default tag unless the caller's tags contain it (only the
\* default tag when called without tags), and update_memo called without
\* tags sends the content without tags.
TagListsUntouched ==
    /\ tool.create_default = <<>>
    /\ tool.update_default = <<>>
    /\ tool.client_update_default = <<>>
    /\ (tool.op \in {"create_memo", "update_memo"}) =>
          LET given == IF tool.args.tags = None THEN <<>> ELSE tool.args.tags[1]
              sentTags == IF tool.op = "update_memo" THEN given
                          ELSE IF \E i \in 1..Len(given) : given[i] = DEFAULT_TAG THEN given
                          ELSE given \o <<DEFAULT_TAG>>
              text == IF sentTags = <<>> THEN tool.args.content
                      ELSE IF Len(sentTags) = 1
                      THEN tool.args.content \o <<"\n", "\n">> \o sentTags[1]
                      ELSE tool.args.content \o <<"\n", "\n">> \o sentTags[1]
                           \o <<" ">> \o sentTags[2]
          IN  /\ tool.caller_tags = tool.args.tags
              /\ tool.sent.payload.content = text

TagListsWitness ==
    /\ tool.op = "create_memo"
    /\ tool.args.tags = None
    /\ Len(store) = 3
    /\ store[1].content = <<"a", "\n", "\n", "x", " ", "#", "M", "C", "P">>
    /\ store[3].content = <<"a", "\n", "\n", "#", "M", "C", "P">>

\* two texts are equal up to the case of their letters
CaseEq(a, b) ==
    /\ Len(a) = Len(b)
    /\ \A i \in 1..Len(a) :
          \/ a[i] = b[i]
          \/ \E k \in 1..Len(UpperCase) :
                {a[i], b[i]} = {UpperCase[k], LowerCase[k]}

\* C26: the search_memos_enhanced tool maps the response_format string to
\* the format it equals up to case among id_only, minimal, summary and
\* full, and every other string to summary.
FormatMapped ==
    (tool.op = "search_memos_enhanced") =>
        LET f == tool.args.args.response_format
        IN  tool.params.response_format =
                IF CaseEq(f, <<"i", "d", "_", "o", "n", "l", "y">>) THEN "id_only"
                ELSE IF CaseEq(f, <<"m", "i", "n", "i", "m", "a", "l">>) THEN "minimal"
                ELSE IF CaseEq(f, <<"f", "u", "l", "l">>) THEN "full"
                ELSE "summary"

FormatMappedWitness ==
    /\ tool.op = "search_memos_enhanced"
    /\ tool.args.args.response_format = <<"I", "D", "_", "O", "N", "L", "Y">>
    /\ "memos" \in DOMAIN tool.outcome
    /\ tool.outcome.memos # <<>>
    /\ DOMAIN tool.outcome.memos[1] = {"id"}

\* C27 as stated: EnhancedMemos.search_memos(query) returns the same set of
\* memos as the original Memos.search_memos(query) on the same collection.
SearchMemosAsOriginal ==
    (tool.op = "search_memos" /\ Accepted(tool.args.fetch, {200})) =>
        IdsOf(tool.outcome) = NamesOf(Memos_search_memos(tool.args.fetch, tool.args.query))

\* C22: two invocations of search_memos_enhanced with equal parameters that
\* fetched collections with identical contents return equal responses,
\* whatever searches ran before and whatever runs beside them.
Deterministic ==
    \A i, j \in DOMAIN inv :
        (/\ inv[i].pc = "returned" /\ inv[j].pc = "returned"
         /\ inv[i].params = inv[j].params
         /\ inv[i].fetched = inv[j].fetched)
        => inv[i].response = inv[j].response

DeterministicWitness ==
    /\ DOMAIN inv = Invocations
    /\ inv[1].pc = "returned" /\ inv[2].pc = "returned"
    /\ inv[1].params = inv[2].params
    /\ inv[1].fetched = inv[2].fetched
    /\ inv[1].fetched # store
    /\ Len(inv[1].response.memos) = 2

\* every invocation that has returned holds the response of a search running
\* alone on the collection it fetched
ReturnsAsAlone ==
    \A i \in DOMAIN inv :
        inv[i].pc = "returned" =>
            inv[i].response = SearchLocals(inv[i].fetched, inv[i].params).response

\* a step of an invocation under way leaves the note store, the client, the
\* invocation's parameters and fetched collection and every other
\* invocation as they are
StageFrame ==
    \A i \in DOMAIN inv :
        (inv[i].pc \notin {"idle", "returned"} /\ inv'[i] # inv[i]) =>
            /\ store' = store
            /\ tool' = tool
            /\ inv[i].pc # "called" =>
                  /\ inv'[i].params = inv[i].params
                  /\ inv'[i].fetched = inv[i].fetched
            /\ \A j \in DOMAIN inv \ {i} :
                  inv[j].pc \notin {"idle", "returned"} => inv'[j] = inv[j]

\* C23: invocations of search_memos_enhanced whose stages interleave in any
\* order each return the response they would return running alone on the
\* collection they fetched, and no stage writes to the note store, to the
\* client, to the parameters or to the locals of another invocation.
Isolated == []ReturnsAsAlone /\ [][StageFrame]_vars

IsolatedWitness ==
    /\ DOMAIN inv = Invocations
    /\ inv[1].pc = "returned"
    /\ inv[2].pc = "sorted"
    /\ inv[1].params # inv[2].params
    /\ inv[1].fetched # inv[2].fetched
    /\ inv[1].response.memos # <<>>

\* C28 as stated: the snippet of the occurrence at pos is the window
\* [max(0, pos - 50), min(len, pos + len(query) + 50)) extended outward over
\* alphanumeric characters, with the emphasis markers in it, prefixed with
\* "..." exactly when the window starts after position 0 and suffixed with
\* "..." exactly when it ends before the end of the content; the window
\* contains the whole occurrence.
WindowAsStated ==
    Returned("_extract_snippet_around_match") =>
        \A i \in 1..Len(call.ret) :
            LET content == call.content
                n       == Len(content)
                pos     == Nth(MatchPositions(content, call.query), i)
                lo0     == IF pos - 50 > 0 THEN pos - 50 ELSE 0
                hi0     == IF pos + Len(call.query) + 50 < n
                           THEN pos + Len(call.query) + 50 ELSE n
                los     == {b \in 0..lo0 : b = 0 \/ ~IsAlnum(content[b])}
                his     == {e \in hi0..n : e = n \/ ~IsAlnum(content[e + 1])}
                lo      == CHOOSE b \in los : \A c \in los : c <= b
                hi      == CHOOSE e \in his : \A c \in his : e <= c
                prefix  == IF lo > 0 THEN <<".", ".", ".">> ELSE <<>>
                suffix  == IF hi < n THEN <<".", ".", ".">> ELSE <<>>
                snip    == call.ret[i]
            IN  /\ lo <= pos /\ pos + Len(call.query) <= hi
                /\ Len(snip) >= Len(prefix) + Len(suffix)
                /\ SubSeq(snip, 1, Len(prefix)) = prefix
                /\ SubSeq(snip, Len(snip) - Len(suffix) + 1, Len(snip)) = suffix
                /\ Replace(SubSeq(snip, Len(prefix) + 1, Len(snip) - Len(suffix)),
                           Bold, <<>>)
                   = SubSeq(content, lo + 1, hi)

\* _apply_response_format has returned a note in summary format
SummaryNote ==
    /\ Returned("_apply_response_format")
    /\ call.params.response_format = "summary"

\* C29: in summary format the content is the smart summary exactly when the
\* query is non-empty or summary_only is set; otherwise it is the first
\* content_max_length characters of the record's content, followed by "..."
\* exactly when the content is longer, and the note has no relevance score
\* and no match snippets.
SummaryOrTruncation ==
    SummaryNote =>
        LET content == IF "content" \in DOMAIN call.memo THEN call.memo.content ELSE <<>>
            n       == call.params.content_max_length
        IN  IF call.query # <<>> \/ call.params.summary_only
            THEN call.ret["content"] = _generate_smart_summary(call.memo, call.query, n)
            ELSE /\ call.ret["content"] =
                       IF Len(content) > n
                       THEN SubSeq(content, 1, n) \o <<".", ".", ".">>
                       ELSE content
                 /\ "relevance_score" \notin DOMAIN call.ret
                 /\ "match_snippets" \notin DOMAIN call.ret

SummaryOrTruncationWitness ==
    /\ SummaryNote
    /\ call.query = <<>> /\ ~call.params.summary_only
    /\ call.memo.name = "m3"
    /\ call.params.content_max_length = MinContentLength
    /\ Len(call.ret["content"]) = MinContentLength + 3

\* C30: the content of a note in summary format, and every summary, is at
\* most content_max_length + 3 characters long; a structural summary is
\* longer than max_length only when the first line of the content alone is
\* longer than max_length.
SummaryBounded ==
    /\ SummaryNote => Len(call.ret["content"]) <= call.params.content_max_length + 3
    /\ Returned("_generate_smart_summary") => Len(call.ret) <= call.max_length + 3
    /\ (StructuralCase /\ Len(call.ret) > call.max_length)
          => Len(FirstLineOf(call.content)) > call.max_length

SummaryBoundedWitness ==
    /\ StructuralCase
    /\ call.content = LongContent
    /\ Len(call.ret) > call.max_length

====
